---------------------------- MODULE Spec2Model ----------------------------
(***************************************************************************)
(* Session lifecycle, codec operations and statistics of the RKMPP MJPEG   *)
(* encoder/decoder library (src/unnamed/part_001 = encoder.c,              *)
(* src/decoder.c, src/unnamed/part_002 = encoder_internal.h + utils.c).    *)
(*                                                                         *)
(* A session record lives in a slot; a handle is the slot number, NULL is  *)
(* 0.  Application threads call the public functions; every function is    *)
(* cut into steps at its accesses to shared state (the record, its mutex). *)
(* Callers are conforming: no call is issued on a handle once destroy has  *)
(* begun on it, and destroy is called once per handle.                     *)
(***************************************************************************)
EXTENDS Integers, Sequences, FiniteSets, TLC

(* ------------------------------ bounds --------------------------------- *)
NumThreads == 2
NumSlots == 2
MaxCalls == 2
\* sessions one behaviour creates, except where every thread keeps to its own
MaxSessions == 1

Threads == 1..NumThreads
Slots == 1..NumSlots

(* ------------------------- program constants --------------------------- *)
NULL == 0
RKMPP_OK == 0
RKMPP_ERR_INVALID_PARAM == -1
RKMPP_ERR_MEMORY == -2
RKMPP_ERR_INIT == -3
RKMPP_ERR_ENCODE == -4
RKMPP_ERR_DECODE == -5
RKMPP_ERR_TIMEOUT == -6
RKMPP_ERR_NOT_READY == -7
RKMPP_ERR_UNKNOWN == -99

VARIABLES
  rec,           \* rec[s]: the session record in slot s (struct RkmppEncoder / RkmppDecoder)
  acq,           \* acq[s]: resources acquired for slot s, in acquisition order
  rel,           \* rel[s]: resources released for slot s, in release order
  handles,       \* handles returned by create and shared by the application
  destroyBegun,  \* destroyBegun[s]: destroy has been called on handle s
  pc,            \* pc[t]: position of thread t inside its current call
  call,          \* call[t]: arguments and locals of thread t's current (or last) call
  ret,           \* ret[t]: status and caller memory written by thread t's last call
  okCalls,       \* okCalls[s]: codec calls on s that returned RKMPP_OK
  sumLen,        \* sumLen[s]: sum of the produced lengths those calls reported
  overlap,       \* overlap[s]: a codec call on s was entered while another was in flight
  rejected,      \* a create call was refused for its configuration
  failed         \* failed[s]: an encode/decode call on s returned a status other than RKMPP_OK

vars == <<rec, acq, rel, handles, destroyBegun, pc, call, ret, okCalls, sumLen, overlap,
          rejected, failed>>

(* ------------------------------ helpers -------------------------------- *)
\* variant: the larger of the two sizes
MinSwapped(a, b) == IF a < b THEN b ELSE a

Min(a, b) == IF a < b THEN a ELSE b

\* uint32_t arithmetic.  A uint32 value is a pair <<high, low>> of 16-bit
\* halves, so that products wrap at 2^32 as the C expressions do.  Arguments
\* given as integers are below 2^31.
U32(n) == <<n \div 65536, n % 65536>>

U32Add(x, y) ==
  LET lo == x[2] + y[2] IN <<(x[1] + y[1] + lo \div 65536) % 65536, lo % 65536>>

\* the low 16 bits of a * b, for a, b below 2^16
U32MulLow(a, b) == ((a % 256) * b + (((a \div 256) * b) % 256) * 256) % 65536

\* a * b in full, for a, b below 2^16
U32MulWide(a, b) ==
  U32Add(U32(a * (b % 256)),
         <<(a * (b \div 256)) \div 256, ((a * (b \div 256)) % 256) * 256>>)

\* x * y, the low 32 bits
U32Mul(x, y) ==
  <<(U32MulWide(x[2], y[2])[1] + U32MulLow(x[2], y[1]) + U32MulLow(x[1], y[2])) % 65536,
    U32MulWide(x[2], y[2])[2]>>

\* x / 2
U32Half(x) == <<x[1] \div 2, (x[1] % 2) * 32768 + x[2] \div 2>>

\* the integer a value below 2^31 stands for
U32Int(x) == x[1] * 65536 + x[2]

\* variant: three bytes for every pixel
calculate_nv12_size_Packed(width, height) ==
  U32Int(U32Mul(U32Mul(U32(width), U32(height)), U32(3)))

\* static uint32_t calculate_nv12_size(width, height):
\* (width * height * 3) / 2 in uint32_t
calculate_nv12_size(width, height) ==
  U32Int(U32Half(U32Mul(U32Mul(U32(width), U32(height)), U32(3))))

\* variant: the division comes before the multiplication by 3
rkmpp_get_nv12_size_HalfFirst(width, height) ==
  IF width = 0 \/ height = 0 THEN 0
  ELSE U32Int(U32Mul(U32Half(U32Mul(U32(width), U32(height))), U32(3)))

\* uint32_t rkmpp_get_nv12_size(width, height), the public utility
rkmpp_get_nv12_size(width, height) ==
  IF width = 0 \/ height = 0 THEN 0
  ELSE U32Int(U32Half(U32Mul(U32Mul(U32(width), U32(height)), U32(3))))

\* variant: the quality bound is not checked
validate_encoder_config_NoQuality(cfg) ==
  IF ~cfg.present THEN -1
  ELSE IF cfg.width < 16 \/ cfg.width > 4096 \/ cfg.height < 16 \/ cfg.height > 4096 THEN -1
  ELSE IF cfg.fps < 1 \/ cfg.fps > 120 THEN -1
  ELSE 0

\* int validate_encoder_config(config): 0 or -1.  A configuration is the
\* caller's struct; present = FALSE is the NULL pointer.
validate_encoder_config(cfg) ==
  IF ~cfg.present THEN -1
  ELSE IF cfg.width < 16 \/ cfg.width > 4096 \/ cfg.height < 16 \/ cfg.height > 4096 THEN -1
  ELSE IF cfg.fps < 1 \/ cfg.fps > 120 THEN -1
  ELSE IF cfg.quality > 100 THEN -1
  ELSE 0

\* int validate_decoder_config(config)
validate_decoder_config(cfg) ==
  IF ~cfg.present THEN -1
  ELSE IF cfg.max_width < 16 \/ cfg.max_width > 4096
          \/ cfg.max_height < 16 \/ cfg.max_height > 4096 THEN -1
  ELSE 0

(* --------------------------- records and Init -------------------------- *)
\* Caller memory is a sequence: <<>> while no call has written it, <<v>> after.
NoRet == [status |-> <<>>, handle |-> <<>>, buf |-> <<>>, len |-> <<>>,
          info |-> <<>>, of |-> <<>>, ob |-> <<>>, size |-> <<>>, str |-> <<>>]

NoCall == [op |-> "none", h |-> NULL, cfg |-> [present |-> FALSE], fail |-> "none",
           data |-> FALSE, dsize |-> 0, out |-> FALSE, osize |-> 0,
           lenp |-> FALSE, infop |-> FALSE, fp |-> FALSE, bp |-> FALSE,
           copy_size |-> 0, tmp |-> 0,
           width |-> 0, height |-> 0, status |-> 0, bits |-> "none"]

\* A slot that holds no record.
NoRec == [alloc |-> "unused", kind |-> "none",
          mpp_ctx |-> FALSE, mpi |-> FALSE, frame_group |-> FALSE, packet_group |-> FALSE,
          is_encoder |-> -1,
          width |-> 0, height |-> 0, fps |-> 0, bitrate |-> 0, quality |-> 0,
          max_width |-> 0, max_height |-> 0, output_format |-> 0,
          frames |-> 0, bytes |-> 0,
          lock |-> "none", holder |-> 0,
          initialized |-> 0,
          owner |-> 0]

\* malloc + memset(0) + pthread_mutex_init: all pointers NULL, counters 0.
\* owner is the creating thread (no field of the struct).
FreshRec(kind, t) ==
  [NoRec EXCEPT !.alloc = "live", !.kind = kind, !.lock = "free", !.owner = t]

Init ==
  /\ rec = [s \in Slots |-> NoRec]
  /\ acq = [s \in Slots |-> <<>>]
  /\ rel = [s \in Slots |-> <<>>]
  /\ handles = {}
  /\ destroyBegun = [s \in Slots |-> FALSE]
  /\ pc = [t \in Threads |-> "idle"]
  /\ call = [t \in Threads |-> NoCall]
  /\ ret = [t \in Threads |-> NoRet]
  /\ okCalls = [s \in Slots |-> 0]
  /\ sumLen = [s \in Slots |-> 0]
  /\ overlap = [s \in Slots |-> FALSE]
  /\ rejected = FALSE
  /\ failed = [s \in Slots |-> FALSE]

Handles == Slots \cup {NULL}
Range(q) == {q[i] : i \in 1..Len(q)}
\* resources of slot s acquired and not released
Held(s) == Range(acq[s]) \ Range(rel[s])
UnusedSlots == {s \in Slots : rec[s].alloc = "unused"}
\* malloc hands out the lowest unused slot
NextSlot == CHOOSE s \in UnusedSlots : \A u \in UnusedSlots : s <= u

(* ------------------------------- create -------------------------------- *)
\* What the backend (or malloc) reports to one create call: "none" is all
\* calls returning 0; the others name the first call that returns non-zero.
\* The stand-in backend of the repository returns 0 everywhere; the ret != 0
\* branches of create and of the init helper are what these inputs exercise.
FailPoints == {"none", "malloc", "mpp_create", "mpp_init", "frame_group",
               "packet_group", "configure"}

ReturnNoHandle(t, c) ==
  /\ pc' = [pc EXCEPT ![t] = "idle"]
  /\ call' = [call EXCEPT ![t] = c]
  /\ ret' = [ret EXCEPT ![t] = [NoRet EXCEPT !.handle = <<NULL>>]]

\* variant: the quality is stored as given
EncStoreConfigNoDefault(r, cfg) ==
  [r EXCEPT !.width = cfg.width, !.height = cfg.height, !.fps = cfg.fps,
            !.bitrate = cfg.bitrate, !.quality = cfg.quality]

\* rkmpp_encoder_create, "Store configuration"
EncStoreConfig(r, cfg) ==
  [r EXCEPT !.width = cfg.width, !.height = cfg.height, !.fps = cfg.fps,
            !.bitrate = cfg.bitrate,
            !.quality = IF cfg.quality # 0 THEN cfg.quality ELSE 80]

\* rkmpp_decoder_create, "Store configuration"
DecStoreConfig(r, cfg) ==
  [r EXCEPT !.max_width = cfg.max_width, !.max_height = cfg.max_height,
            !.output_format = cfg.output_format]

\* rkmpp_encoder_create up to the call of encoder_init_mpp
EncCreateCall(t, cfg, fail, cap) ==
  /\ pc[t] = "idle"
  /\ LET c == [NoCall EXCEPT !.op = "enc_create", !.cfg = cfg, !.fail = fail] IN
     IF ~cfg.present \/ validate_encoder_config(cfg) # 0 \/ fail = "malloc"
     THEN /\ ReturnNoHandle(t, c)
          /\ rejected' = (rejected \/ ~cfg.present \/ validate_encoder_config(cfg) # 0)
          /\ UNCHANGED <<rec, acq, rel, handles, destroyBegun, okCalls, sumLen, overlap, failed>>
     ELSE /\ UnusedSlots # {}
          /\ NextSlot <= cap
          /\ LET s == NextSlot IN
             /\ rec' = [rec EXCEPT ![s] = EncStoreConfig(FreshRec("enc", t), cfg)]
             /\ acq' = [acq EXCEPT ![s] = <<"rec", "lock">>]
             /\ pc' = [pc EXCEPT ![t] = "cr_init"]
             /\ call' = [call EXCEPT ![t] = [c EXCEPT !.h = s]]
             /\ ret' = [ret EXCEPT ![t] = NoRet]
             /\ UNCHANGED <<rel, handles, destroyBegun, okCalls, sumLen, overlap, rejected, failed>>

\* rkmpp_decoder_create up to the call of decoder_init_mpp
DecCreateCall(t, cfg, fail, cap) ==
  /\ pc[t] = "idle"
  /\ LET c == [NoCall EXCEPT !.op = "dec_create", !.cfg = cfg, !.fail = fail] IN
     IF ~cfg.present \/ validate_decoder_config(cfg) # 0 \/ fail = "malloc"
     THEN /\ ReturnNoHandle(t, c)
          /\ rejected' = (rejected \/ ~cfg.present \/ validate_decoder_config(cfg) # 0)
          /\ UNCHANGED <<rec, acq, rel, handles, destroyBegun, okCalls, sumLen, overlap, failed>>
     ELSE /\ UnusedSlots # {}
          /\ NextSlot <= cap
          /\ LET s == NextSlot IN
             /\ rec' = [rec EXCEPT ![s] = DecStoreConfig(FreshRec("dec", t), cfg)]
             /\ acq' = [acq EXCEPT ![s] = <<"rec", "lock">>]
             /\ pc' = [pc EXCEPT ![t] = "cr_init"]
             /\ call' = [call EXCEPT ![t] = [c EXCEPT !.h = s]]
             /\ ret' = [ret EXCEPT ![t] = NoRet]
             /\ UNCHANGED <<rel, handles, destroyBegun, okCalls, sumLen, overlap, rejected, failed>>

\* variant: the packet group is acquired before the frame group
InitAcquiredPacketFirst(fail) ==
  CASE fail = "mpp_create"   -> <<>>
    [] fail = "mpp_init"     -> <<"ctx", "mpi">>
    [] fail = "frame_group"  -> <<"ctx", "mpi", "pg">>
    [] fail = "packet_group" -> <<"ctx", "mpi">>
    [] OTHER                 -> <<"ctx", "mpi", "pg", "fg">>

\* encoder_init_mpp / decoder_init_mpp: the resources the helper acquires,
\* in order, when the backend reports `fail`.  mpp_create allocates the
\* context and the API handle; a call that fails acquires nothing.
InitAcquired(fail) ==
  CASE fail = "mpp_create"   -> <<>>
    [] fail = "mpp_init"     -> <<"ctx", "mpi">>
    [] fail = "frame_group"  -> <<"ctx", "mpi">>
    [] fail = "packet_group" -> <<"ctx", "mpi", "fg">>
    [] OTHER                 -> <<"ctx", "mpi", "fg", "pg">>

\* ... and what its error paths release before returning -1:
\* mpp_destroy(ctx), preceded by mpp_buffer_group_put(frame_group) once the
\* frame group exists.  mpp_destroy frees the context only.
InitReleased(fail) ==
  CASE fail = "mpp_init"     -> <<"ctx">>
    [] fail = "frame_group"  -> <<"ctx">>
    [] fail = "packet_group" -> <<"fg", "ctx">>
    [] OTHER                 -> <<>>

InitFails(fail) == fail \in {"mpp_create", "mpp_init", "frame_group", "packet_group"}

\* encoder_init_mpp(encoder) / decoder_init_mpp(decoder), called by create
CreateInitMpp(t) ==
  /\ pc[t] = "cr_init"
  /\ LET s == call[t].h
         got == Range(InitAcquired(call[t].fail)) IN
     /\ rec' = [rec EXCEPT ![s] =
                  [@ EXCEPT !.mpp_ctx = "ctx" \in got,
                            !.mpi = "mpi" \in got,
                            !.is_encoder = IF call[t].fail \in {"mpp_create"} THEN @
                                           ELSE IF rec[s].kind = "enc" THEN 1 ELSE 0,
                            !.frame_group = "fg" \in got,
                            !.packet_group = "pg" \in got]]
     /\ acq' = [acq EXCEPT ![s] = @ \o InitAcquired(call[t].fail)]
     /\ rel' = [rel EXCEPT ![s] = @ \o InitReleased(call[t].fail)]
     /\ pc' = [pc EXCEPT ![t] = IF InitFails(call[t].fail) THEN "cr_abort" ELSE "cr_conf"]
  /\ UNCHANGED <<handles, destroyBegun, call, ret, okCalls, sumLen, overlap, rejected, failed>>

\* create after the init helper returned non-zero:
\* pthread_mutex_destroy, free, return NULL
CreateAbort(t) ==
  /\ pc[t] = "cr_abort"
  /\ LET s == call[t].h IN
     /\ rec' = [rec EXCEPT ![s] = [@ EXCEPT !.alloc = "freed", !.lock = "destroyed"]]
     /\ rel' = [rel EXCEPT ![s] = @ \o <<"lock", "rec">>]
  /\ pc' = [pc EXCEPT ![t] = "idle"]
  /\ ret' = [ret EXCEPT ![t] = [NoRet EXCEPT !.handle = <<NULL>>]]
  /\ UNCHANGED <<acq, handles, destroyBegun, call, okCalls, sumLen, overlap, rejected, failed>>

\* variant: the releases in the order of acquisition
CleanupReleasedForward(r) ==
  (IF r.mpp_ctx THEN <<"ctx">> ELSE <<>>)
  \o (IF r.frame_group THEN <<"fg">> ELSE <<>>)
  \o (IF r.packet_group THEN <<"pg">> ELSE <<>>)

\* encoder_cleanup_mpp / decoder_cleanup_mpp: the releases it performs on record r
CleanupReleased(r) ==
  (IF r.packet_group THEN <<"pg">> ELSE <<>>)
  \o (IF r.frame_group THEN <<"fg">> ELSE <<>>)
  \o (IF r.mpp_ctx THEN <<"ctx">> ELSE <<>>)

\* variant: the cleanup helper also clears the state flag
CleanupRecClearsFlag(r) ==
  [r EXCEPT !.packet_group = FALSE, !.frame_group = FALSE, !.mpp_ctx = FALSE, !.mpi = FALSE,
            !.initialized = 0]

\* ... and the record it leaves
CleanupRec(r) ==
  [r EXCEPT !.packet_group = FALSE, !.frame_group = FALSE, !.mpp_ctx = FALSE, !.mpi = FALSE]

\* variant: create returns the handle without setting the state flag
CreateConfigureNoFlag(t) ==
  /\ pc[t] = "cr_conf"
  /\ LET s == call[t].h IN
     IF call[t].fail = "configure"
     THEN /\ rec' = [rec EXCEPT ![s] =
                       [CleanupRec(@) EXCEPT !.alloc = "freed", !.lock = "destroyed"]]
          /\ rel' = [rel EXCEPT ![s] = @ \o CleanupReleased(rec[s]) \o <<"lock", "rec">>]
          /\ ret' = [ret EXCEPT ![t] = [NoRet EXCEPT !.handle = <<NULL>>]]
          /\ UNCHANGED handles
     ELSE /\ handles' = handles \cup {s}
          /\ ret' = [ret EXCEPT ![t] = [NoRet EXCEPT !.handle = <<s>>]]
          /\ UNCHANGED <<rec, rel>>
  /\ pc' = [pc EXCEPT ![t] = "idle"]
  /\ UNCHANGED <<acq, destroyBegun, call, okCalls, sumLen, overlap, rejected, failed>>

\* create from the call of encoder_configure / decoder_configure to its return
CreateConfigure(t) ==
  /\ pc[t] = "cr_conf"
  /\ LET s == call[t].h IN
     IF call[t].fail = "configure"
     THEN /\ rec' = [rec EXCEPT ![s] =
                       [CleanupRec(@) EXCEPT !.alloc = "freed", !.lock = "destroyed"]]
          /\ rel' = [rel EXCEPT ![s] = @ \o CleanupReleased(rec[s]) \o <<"lock", "rec">>]
          /\ ret' = [ret EXCEPT ![t] = [NoRet EXCEPT !.handle = <<NULL>>]]
          /\ UNCHANGED handles
     ELSE /\ rec' = [rec EXCEPT ![s] = [@ EXCEPT !.initialized = 1]]
          /\ handles' = handles \cup {s}
          /\ ret' = [ret EXCEPT ![t] = [NoRet EXCEPT !.handle = <<s>>]]
          /\ UNCHANGED rel
  /\ pc' = [pc EXCEPT ![t] = "idle"]
  /\ UNCHANGED <<acq, destroyBegun, call, okCalls, sumLen, overlap, rejected, failed>>

(* --------------------------- the session lock -------------------------- *)
CodecPcs == {"enc_lock", "enc_copy", "enc_fstore", "enc_bload", "enc_bstore", "enc_unlock",
             "dec_lock", "dec_copy", "dec_fstore", "dec_bload", "dec_bstore", "dec_unlock"}
\* threads inside a codec call on s that passed the argument checks
InFlight(s) == {t \in DOMAIN pc : pc[t] \in CodecPcs \cup {"hung"} /\ call[t].h = s
                                /\ call[t].op \in {"encode", "decode"}}

\* A conforming caller may issue a call on h: create returned it and destroy
\* has not begun on it.  With share = FALSE only the creating thread uses it.
Callable(t, h, share) ==
  /\ h \in handles
  /\ ~destroyBegun[h]
  /\ share \/ rec[h].owner = t

\* variant: a lock that excludes nobody
CanLockNoExclusion(s) == rec[s].alloc = "live"

\* pthread_mutex_lock returns: the mutex of a live record is free
CanLock(s) == rec[s].alloc = "live" /\ rec[s].lock = "free"
LockedBy(r, t) == [r EXCEPT !.lock = "held", !.holder = t]
\* pthread_mutex_unlock; on the destroyed mutex of a freed record nothing is left to release
Unlocked(r) == IF r.lock = "held" THEN [r EXCEPT !.lock = "free", !.holder = 0] ELSE r

\* A load from the record: its value while the record is live; after free the
\* memory may still hold the value or have been overwritten.
LoadVals(s, v) == IF rec[s].alloc = "live" THEN {v} ELSE {v, 0}

(* ------------------------------- encode -------------------------------- *)
\* variant: a session that refused one call refuses every later call
EncChecksFatal(c) ==
  IF c.h = NULL \/ ~c.data \/ ~c.out \/ ~c.lenp THEN <<RKMPP_ERR_INVALID_PARAM>>
  ELSE IF rec[c.h].initialized = 0 \/ failed[c.h] THEN <<RKMPP_ERR_INIT>>
  ELSE IF c.dsize < calculate_nv12_size(rec[c.h].width, rec[c.h].height)
       THEN <<RKMPP_ERR_INVALID_PARAM>>
  ELSE IF c.osize < calculate_nv12_size(rec[c.h].width, rec[c.h].height)
       THEN <<RKMPP_ERR_INVALID_PARAM>>
  ELSE <<>>

\* variant: the output capacity is not checked
EncChecksNoCapacity(c) ==
  IF c.h = NULL \/ ~c.data \/ ~c.out \/ ~c.lenp THEN <<RKMPP_ERR_INVALID_PARAM>>
  ELSE IF rec[c.h].initialized = 0 THEN <<RKMPP_ERR_INIT>>
  ELSE IF c.dsize < calculate_nv12_size(rec[c.h].width, rec[c.h].height)
       THEN <<RKMPP_ERR_INVALID_PARAM>>
  ELSE <<>>

\* variant: the buffer sizes are checked before the state flag
EncChecksSizeFirst(c) ==
  IF c.h = NULL \/ ~c.data \/ ~c.out \/ ~c.lenp THEN <<RKMPP_ERR_INVALID_PARAM>>
  ELSE IF c.dsize < calculate_nv12_size(rec[c.h].width, rec[c.h].height)
       THEN <<RKMPP_ERR_INVALID_PARAM>>
  ELSE IF c.osize < calculate_nv12_size(rec[c.h].width, rec[c.h].height)
       THEN <<RKMPP_ERR_INVALID_PARAM>>
  ELSE IF rec[c.h].initialized = 0 THEN <<RKMPP_ERR_INIT>>
  ELSE <<>>

\* rkmpp_encoder_encode, the checks before pthread_mutex_lock: the status it
\* returns at once, or <<>> when the call goes on to take the lock.
EncChecks(c) ==
  IF c.h = NULL \/ ~c.data \/ ~c.out \/ ~c.lenp THEN <<RKMPP_ERR_INVALID_PARAM>>
  ELSE IF rec[c.h].initialized = 0 THEN <<RKMPP_ERR_INIT>>
  ELSE IF c.dsize < calculate_nv12_size(rec[c.h].width, rec[c.h].height)
       THEN <<RKMPP_ERR_INVALID_PARAM>>
  ELSE IF c.osize < calculate_nv12_size(rec[c.h].width, rec[c.h].height)
       THEN <<RKMPP_ERR_INVALID_PARAM>>
  ELSE <<>>

\* rkmpp_encoder_encode(encoder, nv12_data, nv12_size, jpeg_data, jpeg_size, jpeg_len):
\* from its entry to the return of a failed check or to pthread_mutex_lock
EncEnter(t, h, data, dsize, out, osize, lenp) ==
  /\ pc[t] = "idle"
  /\ LET c == [NoCall EXCEPT !.op = "encode", !.h = h, !.data = data, !.dsize = dsize,
                             !.out = out, !.osize = osize, !.lenp = lenp] IN
     /\ call' = [call EXCEPT ![t] = c]
     /\ IF EncChecks(c) # <<>>
        THEN /\ ret' = [ret EXCEPT ![t] = [NoRet EXCEPT !.status = EncChecks(c)]]
             /\ failed' = IF h = NULL THEN failed ELSE [failed EXCEPT ![h] = TRUE]
             /\ UNCHANGED <<pc, overlap>>
        ELSE /\ okCalls[h] + Cardinality(InFlight(h)) < MaxCalls
             /\ ret' = [ret EXCEPT ![t] = NoRet]
             /\ pc' = [pc EXCEPT ![t] = "enc_lock"]
             /\ overlap' = [overlap EXCEPT ![h] = @ \/ InFlight(h) # {}]
             /\ UNCHANGED failed
  /\ UNCHANGED <<rec, acq, rel, handles, destroyBegun, okCalls, sumLen, rejected>>

\* a call of rkmpp_encoder_encode by a conforming caller
EncCall(t, h, data, dsize, out, osize, lenp, share) ==
  /\ h # NULL => Callable(t, h, share) /\ rec[h].kind = "enc"
  /\ EncEnter(t, h, data, dsize, out, osize, lenp)

\* ... and by a caller that has the address of an encoder record which
\* another thread's create has allocated and not yet returned
EncCallEarly(t, h, data, dsize, out, osize, lenp) ==
  /\ \E u \in DOMAIN pc \ {t} : pc[u] \in {"cr_init", "cr_conf"} /\ call[u].h = h
  /\ rec[h].kind = "enc"
  /\ EncEnter(t, h, data, dsize, out, osize, lenp)

\* variant: encode goes on without the lock
EncLockSkipped(t) ==
  /\ pc[t] = "enc_lock"
  /\ rec[call[t].h].alloc = "live"
  /\ pc' = [pc EXCEPT ![t] = "enc_copy"]
  /\ UNCHANGED <<rec, acq, rel, handles, destroyBegun, call, ret, okCalls, sumLen, overlap, rejected, failed>>

\* pthread_mutex_lock(&encoder->lock)
EncLock(t) ==
  /\ pc[t] = "enc_lock"
  /\ CanLock(call[t].h)
  /\ rec' = [rec EXCEPT ![call[t].h] = LockedBy(@, t)]
  /\ pc' = [pc EXCEPT ![t] = "enc_copy"]
  /\ UNCHANGED <<acq, rel, handles, destroyBegun, call, ret, okCalls, sumLen, overlap, rejected, failed>>

\* copy_size = min(jpeg_size, nv12_size); memcpy; *jpeg_len = copy_size;
\* then the load of frames_encoded++
EncCopy(t) ==
  /\ pc[t] = "enc_copy"
  /\ LET copy_size == Min(call[t].osize, call[t].dsize) IN
     /\ ret' = [ret EXCEPT ![t] = [@ EXCEPT !.buf = <<copy_size>>, !.len = <<copy_size>>]]
     /\ \E v \in LoadVals(call[t].h, rec[call[t].h].frames) :
          call' = [call EXCEPT ![t] = [@ EXCEPT !.copy_size = copy_size, !.tmp = v]]
  /\ pc' = [pc EXCEPT ![t] = "enc_fstore"]
  /\ UNCHANGED <<rec, acq, rel, handles, destroyBegun, okCalls, sumLen, overlap, rejected, failed>>

\* variant: one frame counter shared by all encoder sessions
EncFramesStoreShared(t) ==
  /\ pc[t] = "enc_fstore"
  /\ rec' = [s \in Slots |-> IF rec[s].alloc = "live" /\ rec[s].kind = "enc"
                              THEN [rec[s] EXCEPT !.frames = call[t].tmp + 1]
                              ELSE rec[s]]
  /\ pc' = [pc EXCEPT ![t] = "enc_bload"]
  /\ UNCHANGED <<acq, rel, handles, destroyBegun, call, ret, okCalls, sumLen, overlap, rejected, failed>>

\* the store of frames_encoded++
EncFramesStore(t) ==
  /\ pc[t] = "enc_fstore"
  /\ rec' = [rec EXCEPT ![call[t].h] = [@ EXCEPT !.frames = call[t].tmp + 1]]
  /\ pc' = [pc EXCEPT ![t] = "enc_bload"]
  /\ UNCHANGED <<acq, rel, handles, destroyBegun, call, ret, okCalls, sumLen, overlap, rejected, failed>>

\* the load of bytes_encoded += copy_size
EncBytesLoad(t) ==
  /\ pc[t] = "enc_bload"
  /\ \E v \in LoadVals(call[t].h, rec[call[t].h].bytes) :
       call' = [call EXCEPT ![t] = [@ EXCEPT !.tmp = v]]
  /\ pc' = [pc EXCEPT ![t] = "enc_bstore"]
  /\ UNCHANGED <<rec, acq, rel, handles, destroyBegun, ret, okCalls, sumLen, overlap, rejected, failed>>

\* variant: the encoder adapts its stored bitrate to what it produced
EncBytesStoreAdaptsBitrate(t) ==
  /\ pc[t] = "enc_bstore"
  /\ rec' = [rec EXCEPT ![call[t].h] =
               [@ EXCEPT !.bytes = call[t].tmp + call[t].copy_size,
                         !.bitrate = call[t].copy_size * 8 * rec[call[t].h].fps]]
  /\ pc' = [pc EXCEPT ![t] = "enc_unlock"]
  /\ UNCHANGED <<acq, rel, handles, destroyBegun, call, ret, okCalls, sumLen, overlap, rejected, failed>>

\* variant: the store overwrites the byte counter instead of adding to it
EncBytesStoreAssign(t) ==
  /\ pc[t] = "enc_bstore"
  /\ rec' = [rec EXCEPT ![call[t].h] = [@ EXCEPT !.bytes = call[t].copy_size]]
  /\ pc' = [pc EXCEPT ![t] = "enc_unlock"]
  /\ UNCHANGED <<acq, rel, handles, destroyBegun, call, ret, okCalls, sumLen, overlap, rejected, failed>>

\* the store of bytes_encoded += copy_size
EncBytesStore(t) ==
  /\ pc[t] = "enc_bstore"
  /\ rec' = [rec EXCEPT ![call[t].h] = [@ EXCEPT !.bytes = call[t].tmp + call[t].copy_size]]
  /\ pc' = [pc EXCEPT ![t] = "enc_unlock"]
  /\ UNCHANGED <<acq, rel, handles, destroyBegun, call, ret, okCalls, sumLen, overlap, rejected, failed>>

\* pthread_mutex_unlock(&encoder->lock); return RKMPP_OK
EncUnlock(t) ==
  /\ pc[t] = "enc_unlock"
  /\ rec' = [rec EXCEPT ![call[t].h] = Unlocked(@)]
  /\ ret' = [ret EXCEPT ![t] = [@ EXCEPT !.status = <<RKMPP_OK>>]]
  /\ okCalls' = [okCalls EXCEPT ![call[t].h] = @ + 1]
  /\ sumLen' = [sumLen EXCEPT ![call[t].h] = @ + ret[t].len[1]]
  /\ call' = [call EXCEPT ![t] = [@ EXCEPT !.copy_size = 0, !.tmp = 0]]
  /\ pc' = [pc EXCEPT ![t] = "idle"]
  /\ UNCHANGED <<acq, rel, handles, destroyBegun, overlap, rejected, failed>>

(* ------------------------------- decode -------------------------------- *)
\* variant: an empty input is not refused
DecChecksNoSize(c) ==
  IF c.h = NULL \/ ~c.data \/ ~c.out \/ ~c.lenp \/ ~c.infop THEN <<RKMPP_ERR_INVALID_PARAM>>
  ELSE IF rec[c.h].initialized = 0 THEN <<RKMPP_ERR_INIT>>
  ELSE <<>>

\* variant: the output capacity is checked against the raw-frame size
DecChecksWithCapacity(c) ==
  IF c.h = NULL \/ ~c.data \/ ~c.out \/ ~c.lenp \/ ~c.infop THEN <<RKMPP_ERR_INVALID_PARAM>>
  ELSE IF rec[c.h].initialized = 0 THEN <<RKMPP_ERR_INIT>>
  ELSE IF c.dsize = 0 THEN <<RKMPP_ERR_INVALID_PARAM>>
  ELSE IF c.osize < calculate_nv12_size(rec[c.h].max_width, rec[c.h].max_height)
       THEN <<RKMPP_ERR_INVALID_PARAM>>
  ELSE <<>>

\* variant: a record that is not initialized is reported as RKMPP_ERR_NOT_READY
DecChecksNotReady(c) ==
  IF c.h = NULL \/ ~c.data \/ ~c.out \/ ~c.lenp \/ ~c.infop THEN <<RKMPP_ERR_INVALID_PARAM>>
  ELSE IF rec[c.h].initialized = 0 THEN <<RKMPP_ERR_NOT_READY>>
  ELSE IF c.dsize = 0 THEN <<RKMPP_ERR_INVALID_PARAM>>
  ELSE <<>>

\* rkmpp_decoder_decode, the checks before pthread_mutex_lock
DecChecks(c) ==
  IF c.h = NULL \/ ~c.data \/ ~c.out \/ ~c.lenp \/ ~c.infop THEN <<RKMPP_ERR_INVALID_PARAM>>
  ELSE IF rec[c.h].initialized = 0 THEN <<RKMPP_ERR_INIT>>
  ELSE IF c.dsize = 0 THEN <<RKMPP_ERR_INVALID_PARAM>>
  ELSE <<>>

\* rkmpp_decoder_decode(decoder, jpeg_data, jpeg_size, nv12_data, nv12_size, nv12_len, frame_info):
\* from its entry to the return of a failed check or to pthread_mutex_lock.
\* bits says what the input buffer holds: "jpeg" a stream a JPEG parser
\* accepts, "junk" one it does not, "none" where the caller does not say.
DecEnter(t, h, data, dsize, out, osize, lenp, infop, bits) ==
  /\ pc[t] = "idle"
  /\ LET c == [NoCall EXCEPT !.op = "decode", !.h = h, !.data = data, !.dsize = dsize,
                             !.out = out, !.osize = osize, !.lenp = lenp, !.infop = infop,
                             !.bits = bits] IN
     /\ call' = [call EXCEPT ![t] = c]
     /\ IF DecChecks(c) # <<>>
        THEN /\ ret' = [ret EXCEPT ![t] = [NoRet EXCEPT !.status = DecChecks(c)]]
             /\ failed' = IF h = NULL THEN failed ELSE [failed EXCEPT ![h] = TRUE]
             /\ UNCHANGED <<pc, overlap>>
        ELSE /\ okCalls[h] + Cardinality(InFlight(h)) < MaxCalls
             /\ ret' = [ret EXCEPT ![t] = NoRet]
             /\ pc' = [pc EXCEPT ![t] = "dec_lock"]
             /\ overlap' = [overlap EXCEPT ![h] = @ \/ InFlight(h) # {}]
             /\ UNCHANGED failed
  /\ UNCHANGED <<rec, acq, rel, handles, destroyBegun, okCalls, sumLen, rejected>>

\* a call of rkmpp_decoder_decode by a conforming caller
DecCall(t, h, data, dsize, out, osize, lenp, infop, share) ==
  /\ h # NULL => Callable(t, h, share) /\ rec[h].kind = "dec"
  /\ DecEnter(t, h, data, dsize, out, osize, lenp, infop, "none")

\* ... by a conforming caller that knows what its input buffer holds
DecCallBits(t, h, dsize, osize, bits) ==
  /\ Callable(t, h, TRUE) /\ rec[h].kind = "dec"
  /\ DecEnter(t, h, TRUE, dsize, TRUE, osize, TRUE, TRUE, bits)

\* ... and by a caller that has the address of a decoder record which
\* another thread's create has allocated and not yet returned
DecCallEarly(t, h, data, dsize, out, osize, lenp, infop) ==
  /\ \E u \in DOMAIN pc \ {t} : pc[u] \in {"cr_init", "cr_conf"} /\ call[u].h = h
  /\ rec[h].kind = "dec"
  /\ DecEnter(t, h, data, dsize, out, osize, lenp, infop, "none")

\* pthread_mutex_lock(&decoder->lock)
DecLock(t) ==
  /\ pc[t] = "dec_lock"
  /\ CanLock(call[t].h)
  /\ rec' = [rec EXCEPT ![call[t].h] = LockedBy(@, t)]
  /\ pc' = [pc EXCEPT ![t] = "dec_copy"]
  /\ UNCHANGED <<acq, rel, handles, destroyBegun, call, ret, okCalls, sumLen, overlap, rejected, failed>>

\* variant: the descriptor's width and height exchanged
DecCopySwapped(t) ==
  /\ pc[t] = "dec_copy"
  /\ LET copy_size == Min(call[t].osize, call[t].dsize)
         s == call[t].h IN
     /\ \E w \in LoadVals(s, rec[s].max_width), hh \in LoadVals(s, rec[s].max_height) :
          ret' = [ret EXCEPT ![t] =
                    [@ EXCEPT !.buf = <<copy_size>>, !.len = <<copy_size>>,
                              !.info = <<[width |-> hh, height |-> w,
                                          format |-> 0, timestamp |-> 0]>>]]
     /\ \E v \in LoadVals(s, rec[s].frames) :
          call' = [call EXCEPT ![t] = [@ EXCEPT !.copy_size = copy_size, !.tmp = v]]
  /\ pc' = [pc EXCEPT ![t] = "dec_fstore"]
  /\ UNCHANGED <<rec, acq, rel, handles, destroyBegun, okCalls, sumLen, overlap, rejected, failed>>

\* variant: the frame descriptor is left as the caller passed it
DecCopyNoInfo(t) ==
  /\ pc[t] = "dec_copy"
  /\ LET copy_size == Min(call[t].osize, call[t].dsize)
         s == call[t].h IN
     /\ ret' = [ret EXCEPT ![t] = [@ EXCEPT !.buf = <<copy_size>>, !.len = <<copy_size>>]]
     /\ \E v \in LoadVals(s, rec[s].frames) :
          call' = [call EXCEPT ![t] = [@ EXCEPT !.copy_size = copy_size, !.tmp = v]]
  /\ pc' = [pc EXCEPT ![t] = "dec_fstore"]
  /\ UNCHANGED <<rec, acq, rel, handles, destroyBegun, okCalls, sumLen, overlap, rejected, failed>>

\* variant: the descriptor's timestamp is the number of frames decoded before
DecCopyStampsCount(t) ==
  /\ pc[t] = "dec_copy"
  /\ LET copy_size == Min(call[t].osize, call[t].dsize)
         s == call[t].h IN
     \E v \in LoadVals(s, rec[s].frames) :
       /\ \E w \in LoadVals(s, rec[s].max_width), hh \in LoadVals(s, rec[s].max_height) :
            ret' = [ret EXCEPT ![t] =
                      [@ EXCEPT !.buf = <<copy_size>>, !.len = <<copy_size>>,
                                !.info = <<[width |-> w, height |-> hh,
                                            format |-> 0, timestamp |-> v]>>]]
       /\ call' = [call EXCEPT ![t] = [@ EXCEPT !.copy_size = copy_size, !.tmp = v]]
  /\ pc' = [pc EXCEPT ![t] = "dec_fstore"]
  /\ UNCHANGED <<rec, acq, rel, handles, destroyBegun, okCalls, sumLen, overlap, rejected, failed>>

\* copy_size = min(nv12_size, jpeg_size); memcpy; *nv12_len = copy_size;
\* frame_info from max_width, max_height; then the load of frames_decoded++
DecCopy(t) ==
  /\ pc[t] = "dec_copy"
  /\ LET copy_size == Min(call[t].osize, call[t].dsize)
         s == call[t].h IN
     /\ \E w \in LoadVals(s, rec[s].max_width), hh \in LoadVals(s, rec[s].max_height) :
          ret' = [ret EXCEPT ![t] =
                    [@ EXCEPT !.buf = <<copy_size>>, !.len = <<copy_size>>,
                              !.info = <<[width |-> w, height |-> hh,
                                          format |-> 0, timestamp |-> 0]>>]]
     /\ \E v \in LoadVals(s, rec[s].frames) :
          call' = [call EXCEPT ![t] = [@ EXCEPT !.copy_size = copy_size, !.tmp = v]]
  /\ pc' = [pc EXCEPT ![t] = "dec_fstore"]
  /\ UNCHANGED <<rec, acq, rel, handles, destroyBegun, okCalls, sumLen, overlap, rejected, failed>>

\* the store of frames_decoded++
DecFramesStore(t) ==
  /\ pc[t] = "dec_fstore"
  /\ rec' = [rec EXCEPT ![call[t].h] = [@ EXCEPT !.frames = call[t].tmp + 1]]
  /\ pc' = [pc EXCEPT ![t] = "dec_bload"]
  /\ UNCHANGED <<acq, rel, handles, destroyBegun, call, ret, okCalls, sumLen, overlap, rejected, failed>>

\* the load of bytes_decoded += copy_size
DecBytesLoad(t) ==
  /\ pc[t] = "dec_bload"
  /\ \E v \in LoadVals(call[t].h, rec[call[t].h].bytes) :
       call' = [call EXCEPT ![t] = [@ EXCEPT !.tmp = v]]
  /\ pc' = [pc EXCEPT ![t] = "dec_bstore"]
  /\ UNCHANGED <<rec, acq, rel, handles, destroyBegun, ret, okCalls, sumLen, overlap, rejected, failed>>

\* the store of bytes_decoded += copy_size
DecBytesStore(t) ==
  /\ pc[t] = "dec_bstore"
  /\ rec' = [rec EXCEPT ![call[t].h] = [@ EXCEPT !.bytes = call[t].tmp + call[t].copy_size]]
  /\ pc' = [pc EXCEPT ![t] = "dec_unlock"]
  /\ UNCHANGED <<acq, rel, handles, destroyBegun, call, ret, okCalls, sumLen, overlap, rejected, failed>>

\* variant: decode returns RKMPP_OK with the lock still held
DecUnlockSkipped(t) ==
  /\ pc[t] = "dec_unlock"
  /\ ret' = [ret EXCEPT ![t] = [@ EXCEPT !.status = <<RKMPP_OK>>]]
  /\ okCalls' = [okCalls EXCEPT ![call[t].h] = @ + 1]
  /\ sumLen' = [sumLen EXCEPT ![call[t].h] = @ + ret[t].len[1]]
  /\ call' = [call EXCEPT ![t] = [@ EXCEPT !.copy_size = 0, !.tmp = 0]]
  /\ pc' = [pc EXCEPT ![t] = "idle"]
  /\ UNCHANGED <<rec, acq, rel, handles, destroyBegun, overlap, rejected, failed>>

\* pthread_mutex_unlock(&decoder->lock); return RKMPP_OK
DecUnlock(t) ==
  /\ pc[t] = "dec_unlock"
  /\ rec' = [rec EXCEPT ![call[t].h] = Unlocked(@)]
  /\ ret' = [ret EXCEPT ![t] = [@ EXCEPT !.status = <<RKMPP_OK>>]]
  /\ okCalls' = [okCalls EXCEPT ![call[t].h] = @ + 1]
  /\ sumLen' = [sumLen EXCEPT ![call[t].h] = @ + ret[t].len[1]]
  /\ call' = [call EXCEPT ![t] = [@ EXCEPT !.copy_size = 0, !.tmp = 0]]
  /\ pc' = [pc EXCEPT ![t] = "idle"]
  /\ UNCHANGED <<acq, rel, handles, destroyBegun, overlap, rejected, failed>>

(* ------------------------------ get_stats ------------------------------ *)
\* rkmpp_encoder_get_stats / rkmpp_decoder_get_stats (frames, bytes): entry
GetStatsCall(t, h, fp, bp, share) ==
  /\ pc[t] = "idle"
  /\ h # NULL => Callable(t, h, share)
  /\ call' = [call EXCEPT ![t] = [NoCall EXCEPT !.op = "get_stats", !.h = h,
                                                !.fp = fp, !.bp = bp]]
  /\ IF h = NULL
     THEN /\ ret' = [ret EXCEPT ![t] = [NoRet EXCEPT !.status = <<RKMPP_ERR_INVALID_PARAM>>]]
          /\ UNCHANGED pc
     ELSE /\ ret' = [ret EXCEPT ![t] = NoRet]
          /\ pc' = [pc EXCEPT ![t] = "gs_lock"]
  /\ UNCHANGED <<rec, acq, rel, handles, destroyBegun, okCalls, sumLen, overlap, rejected, failed>>

\* variant: the counters are read without the lock
GetStatsLockSkipped(t) ==
  /\ pc[t] = "gs_lock"
  /\ rec[call[t].h].alloc = "live"
  /\ pc' = [pc EXCEPT ![t] = "gs_frames"]
  /\ UNCHANGED <<rec, acq, rel, handles, destroyBegun, call, ret, okCalls, sumLen, overlap, rejected, failed>>

\* pthread_mutex_lock
GetStatsLock(t) ==
  /\ pc[t] = "gs_lock"
  /\ CanLock(call[t].h)
  /\ rec' = [rec EXCEPT ![call[t].h] = LockedBy(@, t)]
  /\ pc' = [pc EXCEPT ![t] = "gs_frames"]
  /\ UNCHANGED <<acq, rel, handles, destroyBegun, call, ret, okCalls, sumLen, overlap, rejected, failed>>

\* variant: the frame counter is written whether or not a location was given
GetStatsFramesAlways(t) ==
  /\ pc[t] = "gs_frames"
  /\ \E v \in LoadVals(call[t].h, rec[call[t].h].frames) :
       ret' = [ret EXCEPT ![t] = [@ EXCEPT !.of = <<v>>]]
  /\ pc' = [pc EXCEPT ![t] = "gs_bytes"]
  /\ UNCHANGED <<rec, acq, rel, handles, destroyBegun, call, okCalls, sumLen, overlap, rejected, failed>>

\* if (frames) *frames = session->frames
GetStatsFrames(t) ==
  /\ pc[t] = "gs_frames"
  /\ \E v \in LoadVals(call[t].h, rec[call[t].h].frames) :
       ret' = [ret EXCEPT ![t] = [@ EXCEPT !.of = IF call[t].fp THEN <<v>> ELSE @]]
  /\ pc' = [pc EXCEPT ![t] = "gs_bytes"]
  /\ UNCHANGED <<rec, acq, rel, handles, destroyBegun, call, okCalls, sumLen, overlap, rejected, failed>>

\* if (bytes) *bytes = session->bytes
GetStatsBytes(t) ==
  /\ pc[t] = "gs_bytes"
  /\ \E v \in LoadVals(call[t].h, rec[call[t].h].bytes) :
       ret' = [ret EXCEPT ![t] = [@ EXCEPT !.ob = IF call[t].bp THEN <<v>> ELSE @]]
  /\ pc' = [pc EXCEPT ![t] = "gs_unlock"]
  /\ UNCHANGED <<rec, acq, rel, handles, destroyBegun, call, okCalls, sumLen, overlap, rejected, failed>>

\* variant: reading the statistics clears them
GetStatsUnlockReset(t) ==
  /\ pc[t] = "gs_unlock"
  /\ rec' = [rec EXCEPT ![call[t].h] = [Unlocked(@) EXCEPT !.frames = 0, !.bytes = 0]]
  /\ ret' = [ret EXCEPT ![t] = [@ EXCEPT !.status = <<RKMPP_OK>>]]
  /\ pc' = [pc EXCEPT ![t] = "idle"]
  /\ UNCHANGED <<acq, rel, handles, destroyBegun, call, okCalls, sumLen, overlap, rejected, failed>>

\* pthread_mutex_unlock; return RKMPP_OK
GetStatsUnlock(t) ==
  /\ pc[t] = "gs_unlock"
  /\ rec' = [rec EXCEPT ![call[t].h] = Unlocked(@)]
  /\ ret' = [ret EXCEPT ![t] = [@ EXCEPT !.status = <<RKMPP_OK>>]]
  /\ pc' = [pc EXCEPT ![t] = "idle"]
  /\ UNCHANGED <<acq, rel, handles, destroyBegun, call, okCalls, sumLen, overlap, rejected, failed>>

(* ------------------------------- destroy ------------------------------- *)
\* rkmpp_encoder_destroy / rkmpp_decoder_destroy: from the entry to the
\* return for NULL or to pthread_mutex_lock
DestroyEnter(t, h) ==
  /\ pc[t] = "idle"
  /\ call' = [call EXCEPT ![t] = [NoCall EXCEPT !.op = "destroy", !.h = h]]
  /\ IF h = NULL
     THEN /\ ret' = [ret EXCEPT ![t] = [NoRet EXCEPT !.status = <<RKMPP_ERR_INVALID_PARAM>>]]
          /\ UNCHANGED <<pc, destroyBegun>>
     ELSE /\ ret' = [ret EXCEPT ![t] = NoRet]
          /\ pc' = [pc EXCEPT ![t] = "ds_lock"]
          /\ destroyBegun' = [destroyBegun EXCEPT ![h] = TRUE]
  /\ UNCHANGED <<rec, acq, rel, handles, okCalls, sumLen, overlap, rejected, failed>>

\* a call of destroy by a conforming caller
DestroyCall(t, h, share) ==
  /\ h # NULL => Callable(t, h, share)
  /\ DestroyEnter(t, h)

\* ... and the second call of destroy on a handle, by a caller whose first
\* call has returned
DestroyAgain(t, h) ==
  /\ h \in handles /\ rec[h].alloc = "freed"
  /\ Cardinality({i \in 1..Len(rel[h]) : rel[h][i] = "rec"}) = 1
  /\ DestroyEnter(t, h)

\* pthread_mutex_lock
DestroyLock(t) ==
  /\ pc[t] = "ds_lock"
  /\ CanLock(call[t].h)
  /\ rec' = [rec EXCEPT ![call[t].h] = LockedBy(@, t)]
  /\ pc' = [pc EXCEPT ![t] = "ds_cleanup"]
  /\ UNCHANGED <<acq, rel, handles, destroyBegun, call, ret, okCalls, sumLen, overlap, rejected, failed>>

\* if (initialized) cleanup_mpp(session).  On a freed record the flag is
\* loaded from freed memory, and so are the pointers: they may read as the
\* NULLs the first cleanup stored, or the allocator may have written its
\* links over the first member (mpp_ctx), which is then passed to
\* mpp_destroy and freed: the release of "wild".
DestroyCleanup(t) ==
  /\ pc[t] = "ds_cleanup"
  /\ LET s == call[t].h IN
     \E v \in LoadVals(s, rec[s].initialized) :
     \E wild \in (IF rec[s].alloc = "freed" /\ ~rec[s].mpp_ctx THEN BOOLEAN ELSE {FALSE}) :
       IF v # 0
       THEN /\ rec' = [rec EXCEPT ![s] = CleanupRec(@)]
            /\ rel' = [rel EXCEPT ![s] = @ \o CleanupReleased(rec[s])
                                           \o (IF wild THEN <<"wild">> ELSE <<>>)]
       ELSE UNCHANGED <<rec, rel>>
  /\ pc' = [pc EXCEPT ![t] = "ds_unlock"]
  /\ UNCHANGED <<acq, handles, destroyBegun, call, ret, okCalls, sumLen, overlap, rejected, failed>>

\* variant: destroy marks the record uninitialized before it releases the lock
DestroyUnlockClearsFlag(t) ==
  /\ pc[t] = "ds_unlock"
  /\ rec' = [rec EXCEPT ![call[t].h] = [Unlocked(@) EXCEPT !.initialized = 0]]
  /\ pc' = [pc EXCEPT ![t] = "ds_free"]
  /\ UNCHANGED <<acq, rel, handles, destroyBegun, call, ret, okCalls, sumLen, overlap, rejected, failed>>

\* pthread_mutex_unlock
DestroyUnlock(t) ==
  /\ pc[t] = "ds_unlock"
  /\ rec' = [rec EXCEPT ![call[t].h] = Unlocked(@)]
  /\ pc' = [pc EXCEPT ![t] = "ds_free"]
  /\ UNCHANGED <<acq, rel, handles, destroyBegun, call, ret, okCalls, sumLen, overlap, rejected, failed>>

\* pthread_mutex_destroy; free(session); return RKMPP_OK.  Neither call
\* looks at who holds or waits for the mutex.  free of a record that is
\* already freed is undefined: it may return, the heap damaged, or the
\* allocator may notice and abort the process.
DestroyFree(t) ==
  /\ pc[t] = "ds_free"
  /\ LET s == call[t].h IN
     /\ rec' = [rec EXCEPT ![s] = [@ EXCEPT !.alloc = "freed", !.lock = "destroyed",
                                            !.holder = 0]]
     /\ rel' = [rel EXCEPT ![s] = @ \o <<"lock", "rec">>]
     /\ \E outcome \in (IF rec[s].alloc = "freed" THEN {"returns", "aborts"}
                         ELSE {"returns"}) :
          IF outcome = "returns"
          THEN /\ ret' = [ret EXCEPT ![t] = [@ EXCEPT !.status = <<RKMPP_OK>>]]
               /\ pc' = [pc EXCEPT ![t] = "idle"]
          ELSE /\ ret' = ret
               /\ pc' = [pc EXCEPT ![t] = "aborted"]
  /\ UNCHANGED <<acq, handles, destroyBegun, call, okCalls, sumLen, overlap, rejected, failed>>

(* -------------------- a call overtaken by destroy ---------------------- *)
\* pthread_mutex_lock on the destroyed mutex of a freed record is undefined:
\* it may return (EINVAL, which the callers do not look at) without
\* excluding anybody, or never return.
AfterLock(p) == CASE p = "enc_lock" -> "enc_copy"
                  [] p = "dec_lock" -> "dec_copy"
                  [] p = "ds_lock"  -> "ds_cleanup"
                  [] OTHER          -> "gs_frames"

LockAfterFree(t) ==
  /\ pc[t] \in {"enc_lock", "dec_lock", "gs_lock", "ds_lock"}
  /\ rec[call[t].h].alloc = "freed"
  /\ \E outcome \in {"returns", "hangs"} :
       pc' = [pc EXCEPT ![t] = IF outcome = "returns" THEN AfterLock(pc[t]) ELSE "hung"]
  /\ UNCHANGED <<rec, acq, rel, handles, destroyBegun, call, ret, okCalls, sumLen, overlap, rejected, failed>>

(* ------------------------------ utilities ------------------------------ *)
\* variant: the switch has no case for RKMPP_ERR_NOT_READY
rkmpp_get_error_string_NoNotReady(status) ==
  CASE status = RKMPP_OK                -> "Success"
    [] status = RKMPP_ERR_INVALID_PARAM -> "Invalid parameter"
    [] status = RKMPP_ERR_MEMORY        -> "Memory allocation failed"
    [] status = RKMPP_ERR_INIT          -> "Initialization failed"
    [] status = RKMPP_ERR_ENCODE        -> "Encoding failed"
    [] status = RKMPP_ERR_DECODE        -> "Decoding failed"
    [] status = RKMPP_ERR_TIMEOUT       -> "Operation timeout"
    [] OTHER                            -> "Unknown error"

\* const char* rkmpp_get_error_string(status): the switch, RKMPP_ERR_UNKNOWN
\* sharing the default label
rkmpp_get_error_string(status) ==
  CASE status = RKMPP_OK                -> "Success"
    [] status = RKMPP_ERR_INVALID_PARAM -> "Invalid parameter"
    [] status = RKMPP_ERR_MEMORY        -> "Memory allocation failed"
    [] status = RKMPP_ERR_INIT          -> "Initialization failed"
    [] status = RKMPP_ERR_ENCODE        -> "Encoding failed"
    [] status = RKMPP_ERR_DECODE        -> "Decoding failed"
    [] status = RKMPP_ERR_TIMEOUT       -> "Operation timeout"
    [] status = RKMPP_ERR_NOT_READY     -> "Data not ready"
    [] OTHER                            -> "Unknown error"

\* a call of rkmpp_get_nv12_size(width, height)
GetNv12SizeCall(t, width, height) ==
  /\ pc[t] = "idle"
  /\ call' = [call EXCEPT ![t] = [NoCall EXCEPT !.op = "get_nv12_size",
                                                !.width = width, !.height = height]]
  /\ ret' = [ret EXCEPT ![t] = [NoRet EXCEPT !.size = <<rkmpp_get_nv12_size(width, height)>>]]
  /\ UNCHANGED <<rec, acq, rel, handles, destroyBegun, pc, okCalls, sumLen, overlap,
                 rejected, failed>>

\* a call of rkmpp_get_error_string(status)
GetErrorStringCall(t, status) ==
  /\ pc[t] = "idle"
  /\ call' = [call EXCEPT ![t] = [NoCall EXCEPT !.op = "get_error_string",
                                                !.status = status]]
  /\ ret' = [ret EXCEPT ![t] = [NoRet EXCEPT !.str = <<rkmpp_get_error_string(status)>>]]
  /\ UNCHANGED <<rec, acq, rel, handles, destroyBegun, pc, okCalls, sumLen, overlap,
                 rejected, failed>>

(* ------------------------------- inputs -------------------------------- *)
EncCfg(w, h, fps, br, q, gop) ==
  [present |-> TRUE, width |-> w, height |-> h, fps |-> fps, bitrate |-> br,
   quality |-> q, gop |-> gop]
DecCfg(w, h, fmt) ==
  [present |-> TRUE, max_width |-> w, max_height |-> h, output_format |-> fmt]
NoCfg == [present |-> FALSE]

\* one valid configuration of each kind: 16x16, raw frame 384 bytes
EncCfgsOne == {EncCfg(16, 16, 30, 0, 0, 0)}
DecCfgsOne == {DecCfg(16, 16, 0)}

\* values on both sides of every bound the validation checks, one field at
\* a time around the 16x16 configuration, and the NULL configuration
DimVals == {0, 15, 16, 17, 4095, 4096, 4097}
EncCfgsWide ==
  {NoCfg}
  \cup {EncCfg(w, 16, 30, 0, 0, 0) : w \in DimVals}
  \cup {EncCfg(16, h, 30, 0, 0, 0) : h \in DimVals}
  \cup {EncCfg(16, 16, fps, 0, 0, 0) : fps \in {0, 1, 120, 121}}
  \cup {EncCfg(16, 16, 30, 0, q, 0) : q \in {0, 1, 80, 100, 101}}
  \cup {EncCfg(16, 16, 30, br, 0, gop) : br \in {0, 4000000}, gop \in {0, 30}}
  \cup {EncCfg(4096, 4096, 120, 4000000, 100, 30), EncCfg(15, 4097, 0, 0, 101, 0)}
DecCfgsWide ==
  {NoCfg}
  \cup {DecCfg(w, 16, 0) : w \in DimVals}
  \cup {DecCfg(16, h, 0) : h \in DimVals}
  \cup {DecCfg(16, 16, 3), DecCfg(4096, 4096, 1), DecCfg(15, 4097, 0)}

\* buffer arguments of a codec call
BufArgs(data, dsize, out, osize, lenp, infop) ==
  [data |-> data, dsize |-> dsize, out |-> out, osize |-> osize, lenp |-> lenp, infop |-> infop]

\* well-sized buffers for a 16x16 session, of two sizes
BufsOne == {BufArgs(TRUE, 384, TRUE, 384, TRUE, TRUE), BufArgs(TRUE, 400, TRUE, 400, TRUE, TRUE)}

\* sizes on both sides of the raw-frame size 384, and 0
SizeVals == {0, 383, 384}
\* every combination of sizes with all pointers present; each pointer
\* absent in turn, and all of them absent; input and output of unequal size
BufsWide ==
  {BufArgs(TRUE, d, TRUE, o, TRUE, TRUE) : d \in SizeVals, o \in SizeVals}
  \cup {BufArgs(i # 1, 384, i # 2, 384, i # 3, i # 4) : i \in 1..4}
  \cup {BufArgs(FALSE, 384, FALSE, 384, FALSE, FALSE)}
  \cup {BufArgs(TRUE, 384, TRUE, 400, TRUE, TRUE), BufArgs(TRUE, 400, TRUE, 384, TRUE, TRUE)}

(* ----------------------------- next-state ------------------------------ *)
\* CF: pairs <<configuration, what the backend reports>>
EncCreateSteps(T, CF, cap) ==
  \E t \in T : \E cf \in CF : EncCreateCall(t, cf[1], cf[2], cap)

DecCreateSteps(T, CF, cap) ==
  \E t \in T : \E cf \in CF : DecCreateCall(t, cf[1], cf[2], cap)

CreateSteps(T) == \E t \in T : CreateInitMpp(t) \/ CreateConfigure(t)

CreateFailSteps(T) == \E t \in T : CreateAbort(t)

\* the steps of an encode call after its entry
EncRest(T) ==
  \E t \in T :
    \/ EncLock(t) \/ EncCopy(t) \/ EncFramesStore(t) \/ EncBytesLoad(t)
    \/ EncBytesStore(t) \/ EncUnlock(t)

EncSteps(T, H, B, share) ==
  \/ \E t \in T : \E h \in H, b \in B :
       EncCall(t, h, b.data, b.dsize, b.out, b.osize, b.lenp, share)
  \/ EncRest(T)

\* the steps of a decode call after its entry
DecRest(T) ==
  \E t \in T :
    \/ DecLock(t) \/ DecCopy(t) \/ DecFramesStore(t) \/ DecBytesLoad(t)
    \/ DecBytesStore(t) \/ DecUnlock(t)

DecSteps(T, H, B, share) ==
  \/ \E t \in T : \E h \in H, b \in B :
       DecCall(t, h, b.data, b.dsize, b.out, b.osize, b.lenp, b.infop, share)
  \/ DecRest(T)

StatSteps(T, H, P, share) ==
  \E t \in T :
    \/ \E h \in H, fp \in P, bp \in P : GetStatsCall(t, h, fp, bp, share)
    \/ GetStatsLock(t) \/ GetStatsFrames(t) \/ GetStatsBytes(t) \/ GetStatsUnlock(t)

DestroySteps(T, H, share) ==
  \E t \in T :
    \/ \E h \in H : DestroyCall(t, h, share)
    \/ DestroyLock(t) \/ DestroyCleanup(t) \/ DestroyUnlock(t) \/ DestroyFree(t)

RaceSteps(T) == \E t \in T : LockAfterFree(t)

\* threads sharing every handle
Next ==
  \/ EncCreateSteps(Threads, EncCfgsOne \X {"none"}, MaxSessions)
  \/ DecCreateSteps(Threads, DecCfgsOne \X {"none"}, MaxSessions)
  \/ CreateSteps(Threads)
  \/ EncSteps(Threads, Slots, BufsOne, TRUE)
  \/ DecSteps(Threads, Slots, BufsOne, TRUE)
  \/ StatSteps(Threads, Slots, {TRUE}, TRUE)
  \/ DestroySteps(Threads, Slots, TRUE)
  \/ RaceSteps(Threads)

Spec == Init /\ [][Next]_vars

\* The steps of thread t inside a call that wait for nothing: the scheduler
\* runs a thread that can take one.
Progress(t) ==
  \/ CreateInitMpp(t) \/ CreateConfigure(t)
  \/ EncCopy(t) \/ EncFramesStore(t) \/ EncBytesLoad(t) \/ EncBytesStore(t) \/ EncUnlock(t)
  \/ DecCopy(t) \/ DecFramesStore(t) \/ DecBytesLoad(t) \/ DecBytesStore(t) \/ DecUnlock(t)
  \/ GetStatsFrames(t) \/ GetStatsBytes(t) \/ GetStatsUnlock(t)
  \/ DestroyCleanup(t) \/ DestroyUnlock(t) \/ DestroyFree(t)
  \/ LockAfterFree(t)

\* pthread_mutex_lock returning to thread t
LockStep(t) == EncLock(t) \/ DecLock(t) \/ GetStatsLock(t) \/ DestroyLock(t)

\* threads sharing every handle, under a fair scheduler: a thread that can
\* take a step takes one, and a thread waiting for a mutex that is free
\* again and again gets it
SpecFair ==
  /\ Init /\ [][Next]_vars
  /\ \A t \in Threads : WF_vars(Progress(t)) /\ SF_vars(LockStep(t))

\* one more thread, all of them on one shared encoder session
RaceThreads == 1..(NumThreads + 1)
InitRace ==
  /\ rec = [s \in Slots |-> NoRec]
  /\ acq = [s \in Slots |-> <<>>]
  /\ rel = [s \in Slots |-> <<>>]
  /\ handles = {}
  /\ destroyBegun = [s \in Slots |-> FALSE]
  /\ pc = [t \in RaceThreads |-> "idle"]
  /\ call = [t \in RaceThreads |-> NoCall]
  /\ ret = [t \in RaceThreads |-> NoRet]
  /\ okCalls = [s \in Slots |-> 0]
  /\ sumLen = [s \in Slots |-> 0]
  /\ overlap = [s \in Slots |-> FALSE]
  /\ rejected = FALSE
  /\ failed = [s \in Slots |-> FALSE]

NextRace ==
  \/ EncCreateSteps(RaceThreads, EncCfgsOne \X {"none"}, MaxSessions)
  \/ CreateSteps(RaceThreads)
  \/ EncSteps(RaceThreads, Slots, BufsOne, TRUE)
  \/ DestroySteps(RaceThreads, Slots, TRUE)
  \/ RaceSteps(RaceThreads)

SpecRace == InitRace /\ [][NextRace]_vars

\* one caller, every argument shape of the calls
NextSeq ==
  \/ EncCreateSteps({1}, EncCfgsOne \X {"none"}, MaxSessions)
  \/ DecCreateSteps({1}, DecCfgsOne \X {"none"}, MaxSessions)
  \/ CreateSteps({1})
  \/ EncSteps({1}, Handles, BufsWide, TRUE)
  \/ DecSteps({1}, Handles, BufsWide, TRUE)
  \/ StatSteps({1}, Handles, BOOLEAN, TRUE)
  \/ DestroySteps({1}, Handles, TRUE)

SpecSeq == Init /\ [][NextSeq]_vars

\* one caller, every configuration shape and every failure of create
NextCfg ==
  \/ EncCreateSteps({1}, (EncCfgsWide \X {"none"}) \cup (EncCfgsOne \X FailPoints), MaxSessions)
  \/ DecCreateSteps({1}, (DecCfgsWide \X {"none"}) \cup (DecCfgsOne \X FailPoints), MaxSessions)
  \/ CreateSteps({1})
  \/ CreateFailSteps({1})
  \/ StatSteps({1}, Slots, {TRUE}, TRUE)
  \/ DestroySteps({1}, Slots, TRUE)

SpecCfg == Init /\ [][NextCfg]_vars

\* every thread works on the sessions it created itself
NextIndep ==
  \/ EncCreateSteps(Threads, EncCfgsOne \X {"none"}, NumSlots)
  \/ DecCreateSteps(Threads, DecCfgsOne \X {"none"}, NumSlots)
  \/ CreateSteps(Threads)
  \/ EncSteps(Threads, Slots, BufsOne, FALSE)
  \/ DecSteps(Threads, Slots, BufsOne, FALSE)
  \/ StatSteps(Threads, Slots, {TRUE}, FALSE)
  \/ DestroySteps(Threads, Slots, FALSE)

SpecIndep == Init /\ [][NextIndep]_vars

\* a pipeline: thread 1 encodes frames into buffers of the raw-frame size of
\* its encoder, or one byte less; thread 2 feeds what thread 1's last encode
\* produced, with its length, to a decoder, with an output buffer of that
\* raw-frame size
TripDims == {<<16, 16>>, <<32, 16>>, <<4096, 4096>>}
EncCfgsTrip == {EncCfg(d[1], d[2], 30, 0, 0, 0) : d \in TripDims}
DecCfgsTrip == {DecCfg(d[1], d[2], 0) : d \in TripDims}

TripEncode ==
  \E h \in Slots, k \in {0, 1} :
    LET n == rkmpp_get_nv12_size(rec[h].width, rec[h].height) IN
    EncCall(1, h, TRUE, n - k, TRUE, n - k, TRUE, FALSE)

TripDecode ==
  /\ pc[1] = "idle" /\ call[1].op = "encode" /\ ret[1].status = <<RKMPP_OK>>
  /\ \E h \in Slots :
       LET e == rec[call[1].h] IN
       DecCall(2, h, TRUE, ret[1].len[1], TRUE, rkmpp_get_nv12_size(e.width, e.height),
               TRUE, TRUE, FALSE)

NextTrip ==
  \/ EncCreateSteps({1}, EncCfgsTrip \X {"none"}, MaxSessions)
  \/ DecCreateSteps({2}, DecCfgsTrip \X {"none"}, MaxSessions + 1)
  \/ CreateSteps(Threads)
  \/ TripEncode
  \/ EncRest({1})
  \/ TripDecode
  \/ DecRest({2})

SpecTrip == Init /\ [][NextTrip]_vars

\* thread 1 creates a session; thread 2 calls encode and decode on the
\* record while create is still at work on it, with every argument shape,
\* and on the handle once create has returned it
NextEarly ==
  \/ EncCreateSteps({1}, EncCfgsOne \X {"none"}, MaxSessions)
  \/ DecCreateSteps({1}, DecCfgsOne \X {"none"}, MaxSessions)
  \/ CreateSteps({1})
  \/ \E h \in Slots, b \in BufsWide :
       EncCallEarly(2, h, b.data, b.dsize, b.out, b.osize, b.lenp)
  \/ \E h \in Slots, b \in BufsWide :
       DecCallEarly(2, h, b.data, b.dsize, b.out, b.osize, b.lenp, b.infop)
  \/ EncSteps({2}, Slots, BufsOne, TRUE)
  \/ DecSteps({2}, Slots, BufsOne, TRUE)

SpecEarly == Init /\ [][NextEarly]_vars

\* one caller of a decoder that knows what it feeds in: streams a JPEG
\* parser accepts and streams it does not, of several sizes
InputBits == {"jpeg", "junk"}
BitsSizes == {1, 384, 400}

NextBits ==
  \/ DecCreateSteps({1}, DecCfgsOne \X {"none"}, MaxSessions)
  \/ CreateSteps({1})
  \/ \E h \in Slots, d \in BitsSizes, o \in BitsSizes, bits \in InputBits :
       DecCallBits(1, h, d, o, bits)
  \/ DecRest({1})
  \/ StatSteps({1}, Slots, {TRUE}, TRUE)

SpecBits == Init /\ [][NextBits]_vars

\* one caller that calls destroy a second time on handles it has destroyed
NextTwice ==
  \/ EncCreateSteps({1}, EncCfgsOne \X {"none"}, NumSlots)
  \/ DecCreateSteps({1}, DecCfgsOne \X {"none"}, NumSlots)
  \/ CreateSteps({1})
  \/ EncSteps({1}, Slots, BufsOne, TRUE)
  \/ DecSteps({1}, Slots, BufsOne, TRUE)
  \/ DestroySteps({1}, Slots, TRUE)
  \/ \E h \in Slots : DestroyAgain(1, h)
  \/ RaceSteps({1})

SpecTwice == Init /\ [][NextTwice]_vars

\* every thread creates decoders of one of two configurations and decodes on
\* its own sessions, with inputs that are empty, of the raw-frame size and
\* longer, output buffers on both sides of that size, and the descriptor
\* location present or absent
DecCfgsHist == {DecCfg(16, 16, 0), DecCfg(32, 16, 0)}
BufsHist ==
  {BufArgs(TRUE, d, TRUE, o, TRUE, TRUE) : d \in {0, 384, 400}, o \in {383, 384}}
  \cup {BufArgs(TRUE, 384, TRUE, 384, TRUE, FALSE)}

NextHist ==
  \/ DecCreateSteps(Threads, DecCfgsHist \X {"none"}, NumSlots)
  \/ CreateSteps(Threads)
  \/ DecSteps(Threads, Slots, BufsHist, FALSE)

SpecHist == Init /\ [][NextHist]_vars

\* one caller of the utility functions: dimensions on both sides of 16 and
\* 4096, 0, odd and even ones, and some whose product passes 2^32; every
\* status of the enumeration and values outside it
UtilDims == {0, 1, 15, 16, 17, 18, 480, 640, 4095, 4096, 4097, 65535, 65536}
StatusVals == {-100, -99, -98, -8, -7, -6, -5, -4, -3, -2, -1, 0, 1, 99}

NextUtil ==
  \/ \E w \in UtilDims, h \in UtilDims : GetNv12SizeCall(1, w, h)
  \/ \E st \in StatusVals : GetErrorStringCall(1, st)

SpecUtil == Init /\ [][NextUtil]_vars

(* ------------------------------ properties ----------------------------- *)
\* the positions between pthread_mutex_lock and pthread_mutex_unlock
SectionPcs == {"enc_copy", "enc_fstore", "enc_bload", "enc_bstore", "enc_unlock",
               "dec_copy", "dec_fstore", "dec_bload", "dec_bstore", "dec_unlock",
               "gs_frames", "gs_bytes", "gs_unlock", "ds_cleanup", "ds_unlock"}
\* thread t takes the step
Acting(t) == pc'[t] # pc[t] \/ call'[t] # call[t] \/ ret'[t] # ret[t]
\* thread t has returned from a call of op
Returned(t, op) == pc[t] = "idle" /\ call[t].op = op

\* C1: with one caller, a get_stats that returned RKMPP_OK reports as frames
\* the number of encode/decode calls on the session that returned RKMPP_OK
\* (0 right after create) and as bytes the sum of the lengths those calls
\* reported (0 right after create); the record's counters agree whenever no
\* call is in progress.
C1_StatsCountOkCalls ==
  /\ \A t \in DOMAIN pc :
       (Returned(t, "get_stats") /\ ret[t].status = <<RKMPP_OK>>) =>
         /\ call[t].fp => ret[t].of = <<okCalls[call[t].h]>>
         /\ call[t].bp => ret[t].ob = <<sumLen[call[t].h]>>
  /\ \A s \in Slots :
       (rec[s].alloc = "live" /\ \A t \in DOMAIN pc : pc[t] = "idle") =>
         rec[s].frames = okCalls[s] /\ rec[s].bytes = sumLen[s]

\* get_stats returned (2, 768) after two calls that produced 384 bytes each
C1_Witness ==
  \E t \in DOMAIN pc :
    /\ Returned(t, "get_stats") /\ ret[t].status = <<RKMPP_OK>>
    /\ ret[t].of = <<2>> /\ ret[t].ob = <<768>>
    /\ okCalls[call[t].h] = 2

\* C2: on one session at most one thread at a time is between the lock and
\* the unlock of encode, decode, get_stats or destroy.
C2_OneThreadInSection ==
  \A s \in Slots :
    Cardinality({t \in DOMAIN pc : pc[t] \in SectionPcs /\ call[t].h = s}) <= 1

\* C3: when threads call encode/decode concurrently on one session, once no
\* such call is in flight the frame counter equals the number of calls that
\* returned RKMPP_OK and the byte counter the sum of their reported lengths.
C3_NoLostUpdate ==
  \A s \in Slots :
    (rec[s].alloc = "live" /\ InFlight(s) = {}) =>
      rec[s].frames = okCalls[s] /\ rec[s].bytes = sumLen[s]

\* two calls overlapped on a session and both have returned RKMPP_OK
C3_Witness ==
  \E s \in Slots :
    /\ rec[s].alloc = "live" /\ InFlight(s) = {}
    /\ overlap[s] /\ okCalls[s] = 2 /\ rec[s].frames = 2
    /\ \A t \in Threads : Returned(t, "encode") /\ ret[t].status = <<RKMPP_OK>>

\* C4: while an encode, decode or get_stats call on a session has not
\* returned, destroy has released nothing of that session: no backend
\* context, no buffer group, not the lock, not the record.
C4_DestroyWaitsForCalls ==
  \A s \in Slots : \A t \in DOMAIN pc :
    (call[t].h = s /\ call[t].op \in {"encode", "decode", "get_stats"} /\ pc[t] # "idle")
      => Range(rel[s]) = {}

\* C5: when every thread works on its own sessions, a step changes the
\* record, the resources and the counts of the acting thread's session only;
\* a thread that reaches a lock finds it free, and destroy returns RKMPP_OK.
C5_SessionsIndependent ==
  [][ /\ \A s \in Slots :
           <<rec'[s], acq'[s], rel'[s], okCalls'[s], sumLen'[s]>>
             # <<rec[s], acq[s], rel[s], okCalls[s], sumLen[s]>>
           => \E t \in Threads : Acting(t) /\ call'[t].h = s /\ rec'[s].owner = t
      /\ \A t \in Threads :
           /\ pc'[t] \in {"enc_lock", "dec_lock", "gs_lock", "ds_lock"}
                => rec'[call'[t].h].alloc = "live" /\ rec'[call'[t].h].lock \in {"free", "held"}
                   /\ rec'[call'[t].h].holder \in {0, t}
           /\ (pc[t] = "ds_free" /\ pc'[t] = "idle") => ret'[t].status = <<RKMPP_OK>>
    ]_vars

\* an encoder and a decoder of different threads have both processed a
\* frame, and both threads' destroy returned RKMPP_OK
C5_Witness ==
  /\ \E s1, s2 \in Slots :
       /\ rec[s1].kind = "enc" /\ rec[s2].kind = "dec" /\ rec[s1].owner # rec[s2].owner
       /\ okCalls[s1] >= 1 /\ okCalls[s2] >= 1
       /\ rec[s1].alloc = "freed" /\ rec[s2].alloc = "freed"
  /\ \A t \in Threads : Returned(t, "destroy") /\ ret[t].status = <<RKMPP_OK>>

\* C6: an encode call whose session, input, output buffer or length location
\* is absent, or whose input size or output capacity is below the raw-frame
\* size of the session's width and height, returns RKMPP_ERR_INVALID_PARAM
\* in its first step: the record (counters and lock included) is unchanged
\* and neither the output buffer nor the length location is written.
C6_EncodeRejects ==
  [][ \A t \in DOMAIN pc :
        (pc[t] = "idle" /\ Acting(t) /\ call'[t].op = "encode") =>
          LET c == call'[t] IN
          ( \/ c.h = NULL \/ ~c.data \/ ~c.out \/ ~c.lenp
            \/ c.dsize < rkmpp_get_nv12_size(rec[c.h].width, rec[c.h].height)
            \/ c.osize < rkmpp_get_nv12_size(rec[c.h].width, rec[c.h].height) )
          => /\ pc'[t] = "idle"
             /\ ret'[t] = [NoRet EXCEPT !.status = <<RKMPP_ERR_INVALID_PARAM>>]
             /\ rec' = rec /\ okCalls' = okCalls /\ sumLen' = sumLen
    ]_vars

\* after one frame was encoded, an encode with an input one byte short of
\* the raw-frame size was refused and the counters still read one frame
C6_Witness ==
  \E t \in DOMAIN pc :
    /\ Returned(t, "encode") /\ ret[t].status = <<RKMPP_ERR_INVALID_PARAM>>
    /\ call[t].h # NULL /\ call[t].data /\ call[t].out /\ call[t].lenp
    /\ call[t].dsize = 383 /\ call[t].osize = 384
    /\ ret[t].buf = <<>> /\ ret[t].len = <<>>
    /\ okCalls[call[t].h] = 1 /\ rec[call[t].h].frames = 1 /\ rec[call[t].h].bytes = 384

\* C7: a decode call whose session, input, output buffer, length location
\* or frame descriptor location is absent, or whose input size is 0, returns
\* RKMPP_ERR_INVALID_PARAM in its first step with the record unchanged and
\* no caller memory written; any other decode call goes on to the lock
\* whatever its output capacity, and returns RKMPP_OK.
C7_DecodeRejects ==
  [][ \A t \in DOMAIN pc :
        /\ (pc[t] = "idle" /\ Acting(t) /\ call'[t].op = "decode") =>
             LET c == call'[t] IN
             IF c.h = NULL \/ ~c.data \/ ~c.out \/ ~c.lenp \/ ~c.infop \/ c.dsize = 0
             THEN /\ pc'[t] = "idle"
                  /\ ret'[t] = [NoRet EXCEPT !.status = <<RKMPP_ERR_INVALID_PARAM>>]
                  /\ rec' = rec /\ okCalls' = okCalls /\ sumLen' = sumLen
             ELSE pc'[t] = "dec_lock" /\ ret'[t] = NoRet
        /\ (pc[t] = "dec_unlock" /\ pc'[t] = "idle") => ret'[t].status = <<RKMPP_OK>>
    ]_vars

\* after a decode into a buffer of capacity 0 returned RKMPP_OK, a decode of
\* an empty input was refused and the counters still read that one frame
C7_Witness ==
  \E t \in DOMAIN pc :
    /\ Returned(t, "decode") /\ ret[t].status = <<RKMPP_ERR_INVALID_PARAM>>
    /\ call[t].h # NULL /\ call[t].data /\ call[t].out /\ call[t].lenp /\ call[t].infop
    /\ call[t].dsize = 0
    /\ ret[t].buf = <<>> /\ ret[t].len = <<>> /\ ret[t].info = <<>>
    /\ okCalls[call[t].h] = 1 /\ sumLen[call[t].h] = 0
    /\ rec[call[t].h].frames = 1 /\ rec[call[t].h].bytes = 0

\* C8: a create call whose configuration is absent, or (encoder) has width
\* or height outside 16..4096, fps outside 1..120 or quality over 100, or
\* (decoder) has max_width or max_height outside 16..4096, returns NULL in
\* its first step and no record, lock or backend resource is acquired; a
\* create call with a valid configuration is accepted, also after such a
\* refusal, and with the backend succeeding it returns a handle.
C8_CreateRejectsInvalid ==
  [][ \A t \in DOMAIN pc :
        /\ (pc[t] = "idle" /\ Acting(t) /\ call'[t].op \in {"enc_create", "dec_create"}) =>
             LET cfg == call'[t].cfg IN
             IF \/ ~cfg.present
                \/ /\ call'[t].op = "enc_create"
                   /\ \/ cfg.width \notin 16..4096 \/ cfg.height \notin 16..4096
                      \/ cfg.fps \notin 1..120 \/ cfg.quality > 100
                \/ /\ call'[t].op = "dec_create"
                   /\ (cfg.max_width \notin 16..4096 \/ cfg.max_height \notin 16..4096)
             THEN /\ pc'[t] = "idle" /\ ret'[t].handle = <<NULL>>
                  /\ rec' = rec /\ acq' = acq /\ rel' = rel /\ handles' = handles
             ELSE call'[t].fail = "none" => pc'[t] = "cr_init"
        /\ (pc[t] = "cr_conf" /\ pc'[t] = "idle" /\ call[t].fail = "none") =>
             ret'[t].handle = <<call[t].h>> /\ call[t].h \in handles'
    ]_vars

\* a create was refused for its configuration, nothing is held for it, and a
\* later create has returned a handle
C8_Witness ==
  /\ rejected
  /\ \E t \in DOMAIN pc :
       /\ Returned(t, "enc_create") /\ ret[t].handle = <<call[t].h>> /\ call[t].h # NULL
       /\ rec[call[t].h].initialized = 1
       /\ \A s \in Slots \ {call[t].h} : acq[s] = <<>>

\* C9: a create with a valid configuration (encoder: width, height in
\* 16..4096, fps in 1..120, quality at most 100; decoder: max_width,
\* max_height in 16..4096) and no failing allocation or backend call returns
\* the handle of a live, initialized record with all backend handles set, a
\* free lock, counters 0 and the configuration fields of the input, the
\* encoder quality 0 stored as 80.
C9_CreateStoresConfig ==
  \A t \in DOMAIN pc :
    (pc[t] = "idle" /\ call[t].op \in {"enc_create", "dec_create"} /\ call[t].fail = "none") =>
      LET cfg == call[t].cfg
          r == rec[call[t].h] IN
      /\ ( /\ call[t].op = "enc_create" /\ cfg.present
           /\ cfg.width \in 16..4096 /\ cfg.height \in 16..4096
           /\ cfg.fps \in 1..120 /\ cfg.quality <= 100 )
         => /\ call[t].h \in Slots /\ ret[t].handle = <<call[t].h>>
            /\ r.alloc = "live" /\ r.initialized = 1 /\ r.lock = "free"
            /\ r.mpp_ctx /\ r.mpi /\ r.frame_group /\ r.packet_group
            /\ r.frames = 0 /\ r.bytes = 0
            /\ r.width = cfg.width /\ r.height = cfg.height /\ r.fps = cfg.fps
            /\ r.bitrate = cfg.bitrate
            /\ r.quality = IF cfg.quality = 0 THEN 80 ELSE cfg.quality
      /\ ( /\ call[t].op = "dec_create" /\ cfg.present
           /\ cfg.max_width \in 16..4096 /\ cfg.max_height \in 16..4096 )
         => /\ call[t].h \in Slots /\ ret[t].handle = <<call[t].h>>
            /\ r.alloc = "live" /\ r.initialized = 1 /\ r.lock = "free"
            /\ r.mpp_ctx /\ r.mpi /\ r.frame_group /\ r.packet_group
            /\ r.frames = 0 /\ r.bytes = 0
            /\ r.max_width = cfg.max_width /\ r.max_height = cfg.max_height
            /\ r.output_format = cfg.output_format

\* an encoder created with quality 0 and bitrate 0 stores quality 80
C9_Witness ==
  \E t \in DOMAIN pc :
    /\ Returned(t, "enc_create") /\ ret[t].handle = <<call[t].h>> /\ call[t].h # NULL
    /\ call[t].cfg.quality = 0 /\ call[t].cfg.bitrate = 0
    /\ rec[call[t].h].quality = 80 /\ rec[call[t].h].initialized = 1

C11_LifecycleLeakFree ==
  \A t \in DOMAIN pc :
    (Returned(t, "destroy") /\ ret[t].status = <<RKMPP_OK>>) =>
      LET s == call[t].h IN
      /\ Held(s) = {}
      /\ \A x \in Range(acq[s]) :
           Cardinality({i \in 1..Len(rel[s]) : rel[s][i] = x}) = 1

\* C12: destroy of NULL returns RKMPP_ERR_INVALID_PARAM and changes nothing;
\* destroy of a live session takes the lock, then releases the packet group,
\* the frame group and the context (those that are set) while holding it,
\* then unlocks, then destroys the lock and frees the record, and returns
\* RKMPP_OK; the record is freed once.
C12_DestroyOrder ==
  [][ \A t \in DOMAIN pc :
        LET h == call[t].h IN
        /\ (pc[t] = "idle" /\ Acting(t) /\ call'[t].op = "destroy") =>
             IF call'[t].h = NULL
             THEN /\ pc'[t] = "idle"
                  /\ ret'[t] = [NoRet EXCEPT !.status = <<RKMPP_ERR_INVALID_PARAM>>]
                  /\ rec' = rec /\ acq' = acq /\ rel' = rel
             ELSE pc'[t] = "ds_lock" /\ rec' = rec /\ rel' = rel
        /\ (pc[t] = "ds_lock" /\ Acting(t)) =>
             /\ pc'[t] = "ds_cleanup" /\ rel' = rel
             /\ rec[h].lock = "free" /\ rec'[h].lock = "held" /\ rec'[h].holder = t
        /\ (pc[t] = "ds_cleanup" /\ Acting(t)) =>
             /\ pc'[t] = "ds_unlock"
             /\ rec'[h].lock = "held" /\ rec'[h].holder = t
             /\ rel'[h] = rel[h]
                           \o (IF rec[h].packet_group THEN <<"pg">> ELSE <<>>)
                           \o (IF rec[h].frame_group THEN <<"fg">> ELSE <<>>)
                           \o (IF rec[h].mpp_ctx THEN <<"ctx">> ELSE <<>>)
             /\ ~rec'[h].packet_group /\ ~rec'[h].frame_group /\ ~rec'[h].mpp_ctx
        /\ (pc[t] = "ds_unlock" /\ Acting(t)) =>
             pc'[t] = "ds_free" /\ rec'[h].lock = "free" /\ rel' = rel
        /\ (pc[t] = "ds_free" /\ Acting(t)) =>
             /\ pc'[t] = "idle" /\ ret'[t].status = <<RKMPP_OK>>
             /\ rec'[h].alloc = "freed" /\ rec'[h].lock = "destroyed"
             /\ rel'[h] = <<"pg", "fg", "ctx", "lock", "rec">>
    ]_vars

\* destroy of a session that processed a frame returned RKMPP_OK
C12_Witness ==
  \E t \in DOMAIN pc :
    /\ Returned(t, "destroy") /\ ret[t].status = <<RKMPP_OK>> /\ call[t].h # NULL
    /\ okCalls[call[t].h] >= 1
    /\ rel[call[t].h] = <<"pg", "fg", "ctx", "lock", "rec">>

\* C13: an encode or decode call that returns a status other than RKMPP_OK
\* leaves every record as it was (initialized, counters, backend handles);
\* on a session that has refused a call, a call with all pointers present
\* and sizes the checks accept goes on to the lock and returns RKMPP_OK.
C13_FailurePerCall ==
  [][ \A t \in DOMAIN pc :
        /\ ( /\ Acting(t) /\ call'[t].op \in {"encode", "decode"} /\ pc'[t] = "idle"
             /\ ret'[t].status # <<RKMPP_OK>> ) =>
             /\ rec' = rec /\ acq' = acq /\ rel' = rel
             /\ okCalls' = okCalls /\ sumLen' = sumLen
             /\ call'[t].h # NULL =>
                  rec'[call'[t].h].alloc = "live" /\ rec'[call'[t].h].initialized = 1
        /\ ( /\ pc[t] = "idle" /\ Acting(t) /\ call'[t].op \in {"encode", "decode"}
             /\ call'[t].h # NULL /\ failed[call'[t].h]
             /\ call'[t].data /\ call'[t].out /\ call'[t].lenp
             /\ \/ /\ call'[t].op = "encode"
                   /\ LET r == rec[call'[t].h] IN
                      /\ call'[t].dsize >= rkmpp_get_nv12_size(r.width, r.height)
                      /\ call'[t].osize >= rkmpp_get_nv12_size(r.width, r.height)
                \/ /\ call'[t].op = "decode"
                   /\ call'[t].infop /\ call'[t].dsize > 0 ) =>
             pc'[t] \in {"enc_lock", "dec_lock"}
        /\ (pc[t] \in {"enc_unlock", "dec_unlock"} /\ Acting(t)) =>
             pc'[t] = "idle" /\ ret'[t].status = <<RKMPP_OK>>
    ]_vars

\* a session refused a call and afterwards encoded a frame
C13_Witness ==
  \E t \in DOMAIN pc :
    /\ Returned(t, "encode") /\ ret[t].status = <<RKMPP_OK>>
    /\ failed[call[t].h] /\ okCalls[call[t].h] = 1
    /\ rec[call[t].h].frames = 1 /\ rec[call[t].h].initialized = 1

\* C14: with one caller, an encode call that returns RKMPP_OK has written
\* as many bytes to the output buffer as it reports in the length location;
\* that number is above 0, at most the output capacity and at most the input
\* size; the frame counter is 1 and the byte counter that number above their
\* values at the entry of the call.
C14_EncodeProduces ==
  [][ \A t \in DOMAIN pc :
        /\ (pc[t] = "idle" /\ Acting(t) /\ pc'[t] = "enc_lock") =>
             /\ rec[call'[t].h].frames = okCalls[call'[t].h]
             /\ rec[call'[t].h].bytes = sumLen[call'[t].h]
        /\ (pc[t] \in {"enc_lock", "enc_copy", "enc_fstore", "enc_bload", "enc_bstore"}
            /\ Acting(t)) =>
             okCalls' = okCalls /\ sumLen' = sumLen
        /\ (pc[t] = "enc_unlock" /\ Acting(t)) =>
             LET h == call[t].h IN
             /\ pc'[t] = "idle" /\ ret'[t].status = <<RKMPP_OK>>
             /\ Len(ret'[t].len) = 1 /\ ret'[t].buf = ret'[t].len
             /\ ret'[t].len[1] > 0
             /\ ret'[t].len[1] <= call[t].osize /\ ret'[t].len[1] <= call[t].dsize
             /\ rec'[h].frames = okCalls[h] + 1
             /\ rec'[h].bytes = sumLen[h] + ret'[t].len[1]
    ]_vars

\* a second frame was encoded from a 384-byte input into a 400-byte buffer
C14_Witness ==
  \E t \in DOMAIN pc :
    /\ Returned(t, "encode") /\ ret[t].status = <<RKMPP_OK>>
    /\ call[t].dsize = 384 /\ call[t].osize = 400 /\ ret[t].len = <<384>>
    /\ rec[call[t].h].frames = 2 /\ rec[call[t].h].bytes = 768

\* C15: with one caller, a decode call that returns RKMPP_OK has written at
\* most the output capacity to the output buffer and reports that number in
\* the length location; it has written width, height, format and timestamp
\* of the frame descriptor, width and height not 0; the frame counter is 1
\* and the byte counter that number above their values at the entry.
C15_DecodeProduces ==
  [][ \A t \in DOMAIN pc :
        /\ (pc[t] = "idle" /\ Acting(t) /\ pc'[t] = "dec_lock") =>
             /\ rec[call'[t].h].frames = okCalls[call'[t].h]
             /\ rec[call'[t].h].bytes = sumLen[call'[t].h]
             /\ ret'[t].info = <<>>
        /\ (pc[t] \in {"dec_lock", "dec_copy", "dec_fstore", "dec_bload", "dec_bstore"}
            /\ Acting(t)) =>
             okCalls' = okCalls /\ sumLen' = sumLen
        /\ (pc[t] = "dec_unlock" /\ Acting(t)) =>
             LET h == call[t].h IN
             /\ pc'[t] = "idle" /\ ret'[t].status = <<RKMPP_OK>>
             /\ Len(ret'[t].len) = 1 /\ ret'[t].buf = ret'[t].len
             /\ ret'[t].len[1] <= call[t].osize
             /\ Len(ret'[t].info) = 1
             /\ DOMAIN ret'[t].info[1] = {"width", "height", "format", "timestamp"}
             /\ ret'[t].info[1].width # 0 /\ ret'[t].info[1].height # 0
             /\ rec'[h].frames = okCalls[h] + 1
             /\ rec'[h].bytes = sumLen[h] + ret'[t].len[1]
    ]_vars

\* a 384-byte input was decoded into a 383-byte buffer: 383 bytes written
C15_Witness ==
  \E t \in DOMAIN pc :
    /\ Returned(t, "decode") /\ ret[t].status = <<RKMPP_OK>>
    /\ call[t].dsize = 384 /\ call[t].osize = 383 /\ ret[t].len = <<383>>
    /\ ret[t].info[1].width = 16 /\ ret[t].info[1].height = 16
    /\ rec[call[t].h].frames = 1 /\ rec[call[t].h].bytes = 383

\* C16 as stated: a decode call that returns RKMPP_OK reports a length
\* above 0, whatever the output capacity.
C16_DecodeLengthPositive ==
  \A t \in DOMAIN pc :
    (Returned(t, "decode") /\ ret[t].status = <<RKMPP_OK>>) => ret[t].len[1] > 0

\* C16: a decode call that returns RKMPP_OK reports as length the smaller
\* of the output capacity and the input size: above 0 exactly when the
\* output capacity is above 0.
C16_DecodeLengthMin ==
  \A t \in DOMAIN pc :
    (Returned(t, "decode") /\ ret[t].status = <<RKMPP_OK>>) =>
      /\ call[t].dsize > 0
      /\ ret[t].len = <<IF call[t].osize < call[t].dsize THEN call[t].osize
                        ELSE call[t].dsize>>
      /\ ret[t].len[1] > 0 <=> call[t].osize > 0

\* a decode into a buffer of capacity 0 returned RKMPP_OK with length 0
C16_Witness ==
  \E t \in DOMAIN pc :
    /\ Returned(t, "decode") /\ ret[t].status = <<RKMPP_OK>>
    /\ call[t].osize = 0 /\ call[t].dsize = 384 /\ ret[t].len = <<0>>

\* C17: an encode call on an encoder of width w and height h with input and
\* output of rkmpp_get_nv12_size(w, h) bytes returns RKMPP_OK; a decode call
\* on a decoder of max_width w and max_height h, given the length that
\* encode reported as its input size and an output of
\* rkmpp_get_nv12_size(w, h) bytes, returns RKMPP_OK with a frame descriptor
\* of width w and height h.
C17_RoundTrip ==
  \A t1, t2 \in DOMAIN pc :
    (Returned(t1, "encode") /\ call[t1].h # NULL) =>
      LET e == rec[call[t1].h]
          n == rkmpp_get_nv12_size(e.width, e.height) IN
      (call[t1].dsize = n /\ call[t1].osize = n) =>
        /\ ret[t1].status = <<RKMPP_OK>> /\ Len(ret[t1].len) = 1
        /\ ( /\ Returned(t2, "decode") /\ call[t2].h # NULL
             /\ rec[call[t2].h].max_width = e.width
             /\ rec[call[t2].h].max_height = e.height
             /\ call[t2].dsize = ret[t1].len[1] /\ call[t2].osize = n ) =>
             /\ ret[t2].status = <<RKMPP_OK>>
             /\ ret[t2].info[1].width = e.width
             /\ ret[t2].info[1].height = e.height

\* a 32x16 frame of 768 bytes was encoded and the 768 bytes produced were
\* decoded by a 32x16 decoder
C17_Witness ==
  \E t1, t2 \in DOMAIN pc :
    /\ Returned(t1, "encode") /\ ret[t1].status = <<RKMPP_OK>> /\ ret[t1].len = <<768>>
    /\ rec[call[t1].h].width = 32 /\ rec[call[t1].h].height = 16
    /\ Returned(t2, "decode") /\ ret[t2].status = <<RKMPP_OK>>
    /\ call[t2].dsize = 768 /\ call[t2].osize = 768
    /\ ret[t2].info[1].width = 32 /\ ret[t2].info[1].height = 16

\* C18: on a created encoder the size encode requires is
\* rkmpp_get_nv12_size(width, height): a call with all pointers present is
\* accepted when input size and output capacity are at least that size, in
\* particular when both equal it, and refused with RKMPP_ERR_INVALID_PARAM
\* when either is below it, in particular one byte less.
C18_SizeUtilityAgrees ==
  [][ \A t \in DOMAIN pc :
        ( /\ pc[t] = "idle" /\ Acting(t) /\ call'[t].op = "encode" /\ call'[t].h # NULL
          /\ call'[t].data /\ call'[t].out /\ call'[t].lenp ) =>
          LET r == rec[call'[t].h]
              n == rkmpp_get_nv12_size(r.width, r.height) IN
          /\ calculate_nv12_size(r.width, r.height) = n
          /\ IF call'[t].dsize >= n /\ call'[t].osize >= n
             THEN pc'[t] = "enc_lock"
             ELSE pc'[t] = "idle" /\ ret'[t].status = <<RKMPP_ERR_INVALID_PARAM>>
    ]_vars

\* a 4096x4096 encoder refused buffers one byte short of 25165824 after it
\* had encoded a frame from buffers of exactly that size
C18_Witness ==
  \E t \in DOMAIN pc :
    /\ Returned(t, "encode") /\ ret[t].status = <<RKMPP_ERR_INVALID_PARAM>>
    /\ rec[call[t].h].width = 4096 /\ rec[call[t].h].height = 4096
    /\ call[t].dsize = 25165823 /\ call[t].osize = 25165823
    /\ okCalls[call[t].h] = 1 /\ sumLen[call[t].h] = 25165824

\* C19 as stated: for width and height in 16..4096 rkmpp_get_nv12_size
\* returns width*height*3/2 (no uint32 wrap), an even number whenever
\* width*height is a multiple of 2; it returns 0 when either is 0.
C19_SizeEvenOnEvenProduct ==
  \A t \in DOMAIN pc :
    Returned(t, "get_nv12_size") =>
      LET w == call[t].width
          h == call[t].height IN
      /\ (w \in 16..4096 /\ h \in 16..4096) =>
           /\ ret[t].size = <<(w * h * 3) \div 2>>
           /\ (w * h) % 2 = 0 => ret[t].size[1] % 2 = 0
      /\ (w = 0 \/ h = 0) => ret[t].size = <<0>>

\* C19: for width and height in 16..4096 rkmpp_get_nv12_size returns
\* width*height*3/2 (no uint32 wrap), an even number whenever width*height
\* is a multiple of 4; it returns 0 when either is 0.
C19_SizeExact ==
  \A t \in DOMAIN pc :
    Returned(t, "get_nv12_size") =>
      LET w == call[t].width
          h == call[t].height IN
      /\ (w \in 16..4096 /\ h \in 16..4096) =>
           /\ ret[t].size = <<(w * h * 3) \div 2>>
           /\ (w * h) % 4 = 0 => ret[t].size[1] % 2 = 0
      /\ (w = 0 \/ h = 0) => ret[t].size = <<0>>

\* rkmpp_get_nv12_size(17, 18) returned 459: odd, the product 306 being even
C19_Witness ==
  \E t \in DOMAIN pc :
    /\ Returned(t, "get_nv12_size")
    /\ call[t].width = 17 /\ call[t].height = 18 /\ ret[t].size = <<459>>

\* C20: rkmpp_get_error_string returns "Success" for 0 and for each of -1,
\* -2, -3, -4, -5, -6, -7 a fixed non-empty string of its own; for -99 and
\* for every other value it returns "Unknown error".
C20_DescribeTotal ==
  \A t \in DOMAIN pc :
    Returned(t, "get_error_string") =>
      LET st == call[t].status
          named == [i \in 0..7 |->
                      <<"Success", "Invalid parameter", "Memory allocation failed",
                        "Initialization failed", "Encoding failed", "Decoding failed",
                        "Operation timeout", "Data not ready">>[i + 1]] IN
      /\ Len(ret[t].str) = 1 /\ ret[t].str[1] # ""
      /\ (0 - st) \in 0..7 => ret[t].str[1] = named[0 - st]
      /\ (0 - st) \notin 0..7 => ret[t].str[1] = "Unknown error"
      /\ \A i, j \in 0..7 : i # j => named[i] # named[j] /\ named[i] # "Unknown error"

\* a value outside the enumeration was described as "Unknown error"
C20_Witness ==
  \E t \in DOMAIN pc :
    /\ Returned(t, "get_error_string")
    /\ call[t].status = -8 /\ ret[t].str = <<"Unknown error">>

\* the record apart from its mutex
SessionFields(r) == [r EXCEPT !.lock = "free", !.holder = 0]

\* C21: with one caller, get_stats of NULL returns RKMPP_ERR_INVALID_PARAM
\* in its first step, writes no caller memory and changes no record;
\* get_stats of a live session changes nothing of any record but the state
\* of the session's mutex, which it finds free and leaves free, and returns
\* RKMPP_OK having written the frame counter to the frames location if one
\* was given, the byte counter to the bytes location if one was given, and
\* nothing else.
C21_GetStats ==
  [][ \A t \in DOMAIN pc :
        LET h == call[t].h IN
        /\ (pc[t] = "idle" /\ Acting(t) /\ call'[t].op = "get_stats") =>
             /\ rec' = rec /\ acq' = acq /\ rel' = rel
             /\ IF call'[t].h = NULL
                THEN /\ pc'[t] = "idle"
                     /\ ret'[t] = [NoRet EXCEPT !.status = <<RKMPP_ERR_INVALID_PARAM>>]
                ELSE /\ pc'[t] = "gs_lock" /\ ret'[t] = NoRet
                     /\ rec[call'[t].h].lock = "free"
        /\ (pc[t] \in {"gs_lock", "gs_frames", "gs_bytes", "gs_unlock"} /\ Acting(t)) =>
             /\ SessionFields(rec'[h]) = SessionFields(rec[h])
             /\ \A s \in Slots \ {h} : rec'[s] = rec[s]
             /\ acq' = acq /\ rel' = rel /\ okCalls' = okCalls /\ sumLen' = sumLen
        /\ (pc[t] = "gs_unlock" /\ Acting(t)) =>
             /\ pc'[t] = "idle" /\ rec'[h].lock = "free"
             /\ ret'[t] = [NoRet EXCEPT
                             !.status = <<RKMPP_OK>>,
                             !.of = IF call[t].fp THEN <<rec[h].frames>> ELSE <<>>,
                             !.ob = IF call[t].bp THEN <<rec[h].bytes>> ELSE <<>>]
    ]_vars

\* after one frame, get_stats with the frames location only returned
\* RKMPP_OK, wrote 1 and left the bytes location unwritten
C21_Witness ==
  \E t \in DOMAIN pc :
    /\ Returned(t, "get_stats") /\ ret[t].status = <<RKMPP_OK>>
    /\ call[t].fp /\ ~call[t].bp /\ ret[t].of = <<1>> /\ ret[t].ob = <<>>
    /\ rec[call[t].h].frames = 1 /\ rec[call[t].h].bytes = 384
    /\ rec[call[t].h].lock = "free"

\* C22: with threads calling encode, decode and get_stats on one session, a
\* get_stats that returns from a session that has not been freed reports as
\* frames the number of codec calls that have returned RKMPP_OK at that
\* instant and as bytes the sum of the lengths those same calls reported:
\* never the frame count of one instant with the byte count of another.
C22_StatsSnapshot ==
  [][ \A t \in DOMAIN pc :
        (pc[t] = "gs_unlock" /\ Acting(t) /\ rec[call[t].h].alloc = "live") =>
          /\ pc'[t] = "idle" /\ ret'[t].status = <<RKMPP_OK>>
          /\ call[t].fp => ret'[t].of = <<okCalls[call[t].h]>>
          /\ call[t].bp => ret'[t].ob = <<sumLen[call[t].h]>>
    ]_vars

\* get_stats has read (1, 384) and still holds the lock, while another
\* thread's encode call on the session waits for it
C22_Witness ==
  \E t, u \in DOMAIN pc :
    /\ pc[t] = "gs_unlock" /\ ret[t].of = <<1>> /\ ret[t].ob = <<384>>
    /\ rec[call[t].h].alloc = "live" /\ rec[call[t].h].holder = t
    /\ u # t /\ pc[u] = "enc_lock" /\ call[u].h = call[t].h

\* C23: a record starts with both counters 0; no step of any call lowers the
\* frame counter or the byte counter of a live record, and a counter of a
\* live record is 0 only while no codec call on the session has returned
\* RKMPP_OK.
C23_CountersGrow ==
  [][ \A s \in Slots :
        /\ (rec[s].alloc = "unused" /\ rec'[s].alloc = "live") =>
             rec'[s].frames = 0 /\ rec'[s].bytes = 0
        /\ (rec[s].alloc = "live" /\ rec'[s].alloc = "live") =>
             /\ rec'[s].frames >= rec[s].frames /\ rec'[s].bytes >= rec[s].bytes
             /\ rec'[s].frames = 0 => okCalls'[s] = 0
             /\ rec'[s].bytes = 0 => sumLen'[s] = 0
    ]_vars

\* a session whose get_stats reported one frame now counts two frames
C23_Witness ==
  \E t \in DOMAIN pc :
    /\ Returned(t, "get_stats") /\ ret[t].of = <<1>> /\ ret[t].ob = <<384>>
    /\ rec[call[t].h].alloc = "live"
    /\ rec[call[t].h].frames = 2 /\ rec[call[t].h].bytes = 784

\* thread t enters an encode or decode call on a record with every pointer
\* the function checks present: the step reads the state flag of the record
EntersWithPointers(t) ==
  /\ pc[t] = "idle" /\ Acting(t) /\ call'[t].op \in {"encode", "decode"}
  /\ call'[t].h # NULL /\ call'[t].data /\ call'[t].out /\ call'[t].lenp
  /\ call'[t].op = "decode" => call'[t].infop

C26_TransformFailure ==
  \A t \in DOMAIN pc :
    (Returned(t, "decode") /\ call[t].h # NULL /\ call[t].bits = "junk") =>
      /\ ret[t].status = <<RKMPP_ERR_DECODE>>
      /\ rec[call[t].h].frames = okCalls[call[t].h]
      /\ rec[call[t].h].bytes = sumLen[call[t].h]

\* C27: whatever the caller does with a handle it has destroyed, nothing of
\* the session is released a second time, nothing is released that the
\* session did not acquire, and no destroy call is past its
\* pthread_mutex_lock on a record that is already freed.
C27_DoubleDestroyHarmless ==
  /\ \A s \in Slots :
       /\ \A i, j \in 1..Len(rel[s]) : rel[s][i] = rel[s][j] => i = j
       /\ Range(rel[s]) \subseteq Range(acq[s])
  /\ \A t \in DOMAIN pc :
       (call[t].op = "destroy" /\ call[t].h # NULL /\ rec[call[t].h].alloc = "freed") =>
         pc[t] \in {"idle", "ds_lock"}

\* the record apart from its counters and its mutex: backend handles,
\* configuration, state flag
ConfigFields(r) == [r EXCEPT !.frames = 0, !.bytes = 0, !.lock = "free", !.holder = 0]

\* C28: from the return of create to the call of destroy, no step of any
\* call changes a member of the session record other than the two counters
\* and the mutex, whatever the caller's argument memory (configuration
\* struct, buffers, output locations) holds or becomes in that step.
C28_ConfigSnapshot ==
  [][ \A s \in Slots :
        (rec[s].alloc = "live" /\ rec[s].initialized = 1 /\ ~destroyBegun'[s]) =>
          ConfigFields(rec'[s]) = ConfigFields(rec[s])
    ]_vars

\* an encoder created from a configuration struct that the caller has since
\* cleared has encoded two frames and still holds 16x16, 30 fps, quality 80
C28_Witness ==
  \E t \in DOMAIN pc :
    /\ Returned(t, "get_stats") /\ ret[t].status = <<RKMPP_OK>> /\ ~call[t].cfg.present
    /\ LET r == rec[call[t].h] IN
       /\ r.alloc = "live" /\ r.kind = "enc" /\ r.frames = 2 /\ r.initialized = 1
       /\ r.width = 16 /\ r.height = 16 /\ r.fps = 30 /\ r.bitrate = 0 /\ r.quality = 80
       /\ r.mpp_ctx /\ r.frame_group /\ r.packet_group

\* the positions from which a step reads or writes members of the record
\* other than the mutex: counters, state flag, backend handles
AccessPcs == {"enc_copy", "enc_fstore", "enc_bload", "enc_bstore",
              "dec_copy", "dec_fstore", "dec_bload", "dec_bstore",
              "gs_frames", "gs_bytes", "ds_cleanup"}

FullAcquired == <<"rec", "lock", "ctx", "mpi", "fg", "pg">>

\* C30: what create has acquired for a record is at every moment a prefix
\* of: record, lock, backend context (with its API handle), frame group,
\* packet group; the context has been initialized for the coding direction
\* of the session before a buffer group is acquired; the configuration step
\* is reached only with all of them acquired and the record not yet
\* initialized; a record is initialized only after that step, and a handle
\* that create returned and destroy has not been called on is that of a
\* live initialized record with context, frame group and packet group set.
C30_CreateOrder ==
  /\ \A s \in Slots :
       /\ Len(acq[s]) <= Len(FullAcquired)
       /\ \A i \in 1..Len(acq[s]) : acq[s][i] = FullAcquired[i]
       /\ "fg" \in Range(acq[s]) => rec[s].is_encoder = (IF rec[s].kind = "enc" THEN 1 ELSE 0)
       /\ rec[s].initialized = 1 =>
            /\ acq[s] = FullAcquired
            /\ \A t \in DOMAIN pc : pc[t] \in {"cr_init", "cr_conf"} => call[t].h # s
       /\ (s \in handles /\ ~destroyBegun[s]) =>
            /\ rec[s].alloc = "live" /\ rec[s].initialized = 1
            /\ rec[s].mpp_ctx /\ rec[s].frame_group /\ rec[s].packet_group
  /\ \A t \in DOMAIN pc :
       /\ pc[t] = "cr_conf" =>
            acq[call[t].h] = FullAcquired /\ rec[call[t].h].initialized = 0
       /\ (pc[t] = "idle" /\ call[t].op \in {"enc_create", "dec_create"}) =>
            (Len(ret[t].handle) = 1 /\ (ret[t].handle[1] # NULL <=>
               (call[t].fail = "none" /\ call[t].h # NULL)))

\* a decoder create has returned a handle: its record holds all three
\* backend objects, initialized for decoding
C30_Witness ==
  \E t \in DOMAIN pc :
    /\ Returned(t, "dec_create") /\ call[t].h # NULL /\ ret[t].handle = <<call[t].h>>
    /\ acq[call[t].h] = FullAcquired /\ rec[call[t].h].is_encoder = 0
    /\ rec[call[t].h].initialized = 1 /\ rec[call[t].h].mpp_ctx
    /\ rec[call[t].h].frame_group /\ rec[call[t].h].packet_group

\* threads inside create on record s, and inside destroy past the cleanup
InCreate(s) == {t \in DOMAIN pc : pc[t] \in {"cr_init", "cr_conf", "cr_abort"} /\ call[t].h = s}
PastCleanup(s) == {t \in DOMAIN pc : pc[t] \in {"ds_unlock", "ds_free"} /\ call[t].h = s}

\* C31 as stated: in every state of a live record, create's and destroy's
\* intermediate states included, the backend context is set exactly when the
\* state flag is 1.
C31_HandleIffReady ==
  \A s \in Slots :
    rec[s].alloc = "live" => (rec[s].mpp_ctx <=> rec[s].initialized = 1)

\* C31: in every state of a live record outside create and outside the end
\* of destroy, the backend context is set exactly when the state flag is 1.
\* Inside create the flag is 0 throughout, also once the init helper has
\* set the context; inside destroy, from the cleanup to the free, the
\* context is NULL and the flag is still 1.
C31_HandleIffReadyBetweenCalls ==
  \A s \in Slots :
    rec[s].alloc = "live" =>
      /\ (InCreate(s) = {} /\ PastCleanup(s) = {}) =>
           (rec[s].mpp_ctx /\ rec[s].initialized = 1)
      /\ InCreate(s) # {} => rec[s].initialized = 0
      /\ PastCleanup(s) # {} => (~rec[s].mpp_ctx /\ rec[s].initialized = 1)
      /\ \A t \in DOMAIN pc :
           (pc[t] \in {"cr_conf", "cr_abort"} /\ call[t].h = s /\ call[t].fail # "mpp_create")
             => rec[s].mpp_ctx

\* destroy has run the cleanup, released the lock and not yet freed the
\* record: context NULL, flag 1
C31_Witness ==
  \E t \in DOMAIN pc :
    /\ pc[t] = "ds_free" /\ rec[call[t].h].alloc = "live"
    /\ ~rec[call[t].h].mpp_ctx /\ rec[call[t].h].initialized = 1
    /\ rel[call[t].h] = <<"pg", "fg", "ctx">>

\* the state of the session in record r: no record yet, a record whose flag
\* is 0, one whose flag is 1, a record that has been freed
SessionState(r) ==
  CASE r.alloc = "unused" -> "None"
    [] r.alloc = "freed"  -> "Destroyed"
    [] r.initialized = 1  -> "Ready"
    [] OTHER              -> "Uninitialized"

\* C32: a record starts Uninitialized; it becomes Ready only in the last
\* step of a create call, from Uninitialized; a Ready session stays Ready
\* until the free of a destroy call makes it Destroyed; a Destroyed session
\* stays Destroyed; no step of encode, decode or get_stats changes the state
\* of any session.  (A record that create frees on a failure goes from
\* Uninitialized to freed without having been Ready or returned.)
C32_StateMachine ==
  [][ /\ \A s \in Slots :
           LET a == SessionState(rec[s])
               b == SessionState(rec'[s]) IN
           /\ a = "None" => b \in {"None", "Uninitialized"}
           /\ a = "Uninitialized" => b \in {"Uninitialized", "Ready", "Destroyed"}
           /\ a = "Ready" => b \in {"Ready", "Destroyed"}
           /\ a = "Destroyed" => b = "Destroyed"
           /\ (a # "Ready" /\ b = "Ready") =>
                \E t \in DOMAIN pc :
                  /\ pc[t] = "cr_conf" /\ call[t].h = s /\ pc'[t] = "idle"
                  /\ call[t].op \in {"enc_create", "dec_create"}
           /\ (a = "Ready" /\ b = "Destroyed") =>
                \E t \in DOMAIN pc :
                  pc[t] = "ds_free" /\ call[t].h = s /\ call[t].op = "destroy"
           /\ (a = "Uninitialized" /\ b = "Destroyed") => s \notin handles'
      /\ \A t \in DOMAIN pc :
           (Acting(t) /\ call'[t].op \in {"encode", "decode", "get_stats"}) =>
             \A s \in Slots : SessionState(rec'[s]) = SessionState(rec[s])
    ]_vars

\* a session that create returned, that processed a frame and reported its
\* statistics, has been destroyed
C32_Witness ==
  \E s \in Slots : \E t, u \in DOMAIN pc :
    /\ s \in handles /\ SessionState(rec[s]) = "Destroyed" /\ okCalls[s] >= 1
    /\ Returned(t, "destroy") /\ call[t].h = s /\ ret[t].status = <<RKMPP_OK>>
    /\ Returned(u, "get_stats") /\ call[u].h = s /\ ret[u].of = <<1>>

\* the positions inside encode, decode, get_stats and destroy
CallPcs == CodecPcs \cup {"gs_lock", "gs_frames", "gs_bytes", "gs_unlock",
                          "ds_lock", "ds_cleanup", "ds_unlock", "ds_free", "hung"}

\* C33: under a fair scheduler, every thread that is inside an encode,
\* decode, get_stats or destroy call on a session gets to the return of the
\* call.
C33_CallsReturn ==
  \A t \in Threads : (pc[t] \in CallPcs) ~> (pc[t] = "idle")

\* the public functions that take the session lock
LockingOps == {"encode", "decode", "get_stats", "destroy"}

\* C34: a thread that enters encode, decode, get_stats or destroy holds no
\* lock; a call that returns from its first step (an early error return)
\* has taken no lock and changed no record; a thread that returns from any
\* of these calls holds no lock; and the lock of a live record is free
\* whenever no thread is between the lock and the unlock of a call on it.
C34_LockReleased ==
  [][ /\ \A t \in DOMAIN pc :
           /\ (pc[t] = "idle" /\ Acting(t)) => \A s \in Slots : rec[s].holder # t
           /\ (pc[t] = "idle" /\ Acting(t) /\ pc'[t] = "idle"
                 /\ call'[t].op \in LockingOps) =>
                /\ rec' = rec
                /\ ret'[t].status \in {<<RKMPP_ERR_INVALID_PARAM>>, <<RKMPP_ERR_INIT>>}
           /\ (Acting(t) /\ pc'[t] = "idle" /\ call'[t].op \in LockingOps) =>
                \A s \in Slots : rec'[s].holder # t
      /\ \A s \in Slots :
           ( /\ rec'[s].alloc = "live"
             /\ \A u \in DOMAIN pc : ~(pc'[u] \in SectionPcs /\ call'[u].h = s) ) =>
             rec'[s].lock = "free" /\ rec'[s].holder = 0
    ]_vars

\* a session that decoded a frame has refused a decode call with an empty
\* input, and its lock is free
C34_Witness ==
  \E t \in DOMAIN pc :
    /\ Returned(t, "decode") /\ ret[t].status = <<RKMPP_ERR_INVALID_PARAM>>
    /\ call[t].h # NULL /\ call[t].dsize = 0 /\ call[t].data /\ call[t].out
    /\ okCalls[call[t].h] = 1 /\ rec[call[t].h].frames = 1
    /\ rec[call[t].h].alloc = "live" /\ rec[call[t].h].lock = "free"

\* every handle that create has returned and destroy has not been called on
\* is that of a live record whose state flag is 1
ReturnedHandlesReady ==
  \A s \in handles : ~destroyBegun[s] => (rec[s].alloc = "live" /\ rec[s].initialized = 1)

\* C35: from the return of create to the call of destroy the state flag of
\* the record is 1; every encode, decode, get_stats and destroy call of a
\* conforming caller that returns, returns RKMPP_OK or
\* RKMPP_ERR_INVALID_PARAM, never RKMPP_ERR_INIT; and an encode or decode
\* call with all pointers present on a returned handle is refused only for
\* its sizes.
C35_ReadyWhileReturned ==
  [][ /\ ReturnedHandlesReady /\ ReturnedHandlesReady'
      /\ \A t \in DOMAIN pc :
           /\ (Acting(t) /\ pc'[t] = "idle" /\ call'[t].op \in LockingOps) =>
                ret'[t].status \in {<<RKMPP_OK>>, <<RKMPP_ERR_INVALID_PARAM>>}
           /\ EntersWithPointers(t) =>
                /\ rec[call'[t].h].initialized = 1
                /\ pc'[t] = "idle" =>
                     IF call'[t].op = "encode"
                     THEN Min(call'[t].dsize, call'[t].osize)
                            < rkmpp_get_nv12_size(rec[call'[t].h].width, rec[call'[t].h].height)
                     ELSE call'[t].dsize = 0
    ]_vars

\* an encode call with an input one byte short, on a handle create returned
\* and destroy was not called on, returned RKMPP_ERR_INVALID_PARAM
C35_Witness ==
  \E t \in DOMAIN pc :
    /\ Returned(t, "encode") /\ ret[t].status = <<RKMPP_ERR_INVALID_PARAM>>
    /\ call[t].h \in handles /\ ~destroyBegun[call[t].h]
    /\ call[t].data /\ call[t].out /\ call[t].lenp /\ call[t].dsize = 383
    /\ rec[call[t].h].initialized = 1

\* On the records create did not return: nothing is released twice, nothing
\* is released that was not acquired, and the cleanup helper (the only code
\* that releases the packet group) has run only with everything acquired.
CreateReleasesOnce ==
  \A s \in Slots \ handles :
    /\ \A i, j \in 1..Len(rel[s]) : rel[s][i] = rel[s][j] => i = j
    /\ Range(rel[s]) \subseteq Range(acq[s])
    /\ "pg" \in Range(rel[s]) =>
         (acq[s] = FullAcquired /\ rel[s] = <<"pg", "fg", "ctx", "lock", "rec">>)

DecodeArgs(c) == <<c.data, c.dsize, c.out, c.osize, c.lenp, c.infop>>
\* the configuration a decoder was created with
DecoderConfig(r) == <<r.max_width, r.max_height, r.output_format>>

\* C37: two decode calls that have returned from sessions of the same
\* configuration, given the same arguments, have returned the same status
\* and written the same produced size, output bytes and frame descriptor,
\* however many frames each session decoded before; and the descriptor of a
\* call that returned RKMPP_OK holds the session's maximal dimensions,
\* format 0 and timestamp 0, all four written by that call.
C37_DecodeHistoryFree ==
  /\ \A t, u \in DOMAIN pc :
       ( /\ Returned(t, "decode") /\ Returned(u, "decode")
         /\ call[t].h # NULL /\ call[u].h # NULL
         /\ DecoderConfig(rec[call[t].h]) = DecoderConfig(rec[call[u].h])
         /\ DecodeArgs(call[t]) = DecodeArgs(call[u]) ) =>
         ret[t] = ret[u]
  /\ \A t \in DOMAIN pc :
       (Returned(t, "decode") /\ ret[t].status = <<RKMPP_OK>>) =>
         ret[t].info = <<[width |-> rec[call[t].h].max_width,
                          height |-> rec[call[t].h].max_height,
                          format |-> 0, timestamp |-> 0]>>

\* two sessions of one configuration, one on its second frame and one on
\* its first, were given a 400-byte input and a 384-byte output buffer and
\* returned the same
C37_Witness ==
  \E t, u \in DOMAIN pc :
    /\ t # u /\ Returned(t, "decode") /\ Returned(u, "decode")
    /\ call[t].h # NULL /\ call[u].h # NULL /\ call[t].h # call[u].h
    /\ DecoderConfig(rec[call[t].h]) = DecoderConfig(rec[call[u].h])
    /\ DecodeArgs(call[t]) = DecodeArgs(call[u])
    /\ call[t].dsize = 400 /\ call[t].osize = 384
    /\ rec[call[t].h].frames = 2 /\ rec[call[u].h].frames = 1
    /\ ret[t].status = <<RKMPP_OK>> /\ ret[t] = ret[u] /\ ret[t].len = <<384>>

=============================================================================
